---- MODULE Spec2Model ----
(***************************************************************************)
(* Model of the Pushok Hub link (api/client.py, PushokHubClient) driven by *)
(* the Home Assistant coordinator (coordinator.py, PushokHubCoordinator).  *)
(* The MQTT bridge (mqtt_bridge/bridge.py), the device registry of both    *)
(* programs and the handshake object (api/auth.py) have their own          *)
(* specifications over the same variables.                                 *)
(*                                                                         *)
(* Every asyncio coroutine is a process whose steps are the code segments  *)
(* between two awaits.  A handler that calls another handler without an    *)
(* await in between is one step, so handlers are written as operators on   *)
(* a record s of the program state and an action applies the final record. *)
(***************************************************************************)
EXTENDS Integers, Sequences, FiniteSets, TLC

VARIABLES
    client,                   \* coordinator._client has been created
    ws,                       \* client._ws: 0 is None, else the transport
    transport,                \* per transport: "unopened", "open", "closed"
    receive_task,             \* client._receive_task: 0 is None, else its transport
    recv,                     \* per transport, its _receive_loop task
    connected,                \* client._connected
    authorized,               \* client._authorized
    command_id,               \* client._command_id
    pending_commands,         \* keys of client._pending_commands
    connection_lost_callback, \* client._connection_lost_callback is set
    broadcast_callback,       \* client._broadcast_callback is set
    calls,                    \* _send_command coroutines awaiting their future
    op,                       \* the connect / disconnect / load in progress
    setup,                    \* position of async_setup
    reconnect_task,           \* coordinator._reconnect_task and its position
    shut,                     \* position of async_shutdown
    hs,                       \* per connect(): handshake runs, addUser requests
    loops,                    \* _reconnect_loop tasks created and not finished
    userCalls,                \* set_state calls made so far
    ev,                       \* what the last step did
    app,                      \* the program on the link: coordinator or bridge
    loaded,                   \* transport on which _load_devices last completed
    setcmd,                   \* the bridge's _handle_set_command coroutine
    auth,                     \* the fields of the PushokAuth object
    cat,                      \* the device registry and its _load_devices
    input,                    \* arguments of a function applied by itself
    output                    \* its result

vars == <<client, ws, transport, receive_task, recv, connected, authorized,
          command_id, pending_commands, connection_lost_callback,
          broadcast_callback, calls, op, setup, reconnect_task, shut, hs,
          loops, userCalls, ev, app, loaded, setcmd, auth, cat, input, output>>

\* the fields of the link object (client.py:80-88)
linkVars == <<ws, receive_task, connected, authorized, command_id,
              pending_commands, connection_lost_callback, broadcast_callback>>

---------------------------------------------------------------------------
\* Bounds of the model

MaxCmd == 6        \* request ids that may be allocated
MaxConn == 2       \* transports that may be opened
MaxUserCalls == 1  \* set_state calls made by the entities

Conns == 1..MaxConn

---------------------------------------------------------------------------
\* Frames the hub can put on the socket (client.py:291-313)

Bodies == {"good", "bad", "malformed", "forged"}

Frame(t, b, i, e, y, r) ==
    [type |-> t, broadcast |-> b, id |-> i, error |-> e, body |-> y, raises |-> r]

NoFrame == Frame("none", FALSE, 0, FALSE, "good", FALSE)

\* a binary frame, undecodable text, JSON that is no object, a broadcast
\* (with or without an id; its observer may raise), a response envelope
\* (an error, or a result that is good, bad or malformed for its request,
\* or forged: an authorization whose gateway signature does not verify)
Frames ==
    {Frame("binary", FALSE, 0, FALSE, "good", FALSE),
     Frame("badjson", FALSE, 0, FALSE, "good", FALSE),
     Frame("nondict", FALSE, 0, FALSE, "good", FALSE)}
    \cup {Frame("json", TRUE, i, FALSE, "good", r) : i \in 0..MaxCmd + 1, r \in BOOLEAN}
    \cup {Frame("json", FALSE, i, TRUE, "good", FALSE) : i \in 0..MaxCmd + 1}
    \cup {Frame("json", FALSE, i, FALSE, y, FALSE) : i \in 0..MaxCmd + 1, y \in Bodies}

---------------------------------------------------------------------------
\* The program state as one record, threaded through the handlers

S == [client |-> client, ws |-> ws, transport |-> transport,
      receive_task |-> receive_task, recv |-> recv, connected |-> connected,
      authorized |-> authorized, command_id |-> command_id,
      pending_commands |-> pending_commands,
      connection_lost_callback |-> connection_lost_callback,
      broadcast_callback |-> broadcast_callback, calls |-> calls, op |-> op,
      setup |-> setup, reconnect_task |-> reconnect_task, shut |-> shut,
      hs |-> hs, loops |-> loops,
      userCalls |-> userCalls, ev |-> {}, app |-> app, loaded |-> loaded,
      setcmd |-> setcmd, auth |-> auth, cat |-> cat]

Apply(s) ==
    /\ client' = s.client
    /\ ws' = s.ws
    /\ transport' = s.transport
    /\ receive_task' = s.receive_task
    /\ recv' = s.recv
    /\ connected' = s.connected
    /\ authorized' = s.authorized
    /\ command_id' = s.command_id
    /\ pending_commands' = s.pending_commands
    /\ connection_lost_callback' = s.connection_lost_callback
    /\ broadcast_callback' = s.broadcast_callback
    /\ calls' = s.calls
    /\ op' = s.op
    /\ setup' = s.setup
    /\ reconnect_task' = s.reconnect_task
    /\ shut' = s.shut
    /\ hs' = s.hs
    /\ loops' = s.loops
    /\ userCalls' = s.userCalls
    /\ ev' = s.ev
    /\ app' = s.app
    /\ loaded' = s.loaded
    /\ setcmd' = s.setcmd
    /\ auth' = s.auth
    /\ cat' = s.cat
    /\ UNCHANGED <<input, output>>

Event(k, i, x) == [k |-> k, id |-> i, x |-> x]

Emit(s, k, i, x) == [s EXCEPT !.ev = @ \cup {Event(k, i, x)}]

Without(f, k) == [x \in (DOMAIN f) \ {k} |-> f[x]]

NoHandshake == [runs |-> 0, addUsers |-> 0]

\* no set command has been received
NoSet == [state |-> "idle", fields |-> 0, issued |-> 0]

\* PushokAuth after construction: no gateway key, shared key or nonce
\* (auth.py:48-51); 0 is None
NoAuth == [gateway_public_key |-> 0, shared_key |-> 0, dev_nonce |-> 0,
           user_nonce |-> 0]

None == 0

Empty == [x \in {} |-> None]

Drivers == {"A", "B"}

\* the registry after construction (coordinator.py:59-62, bridge.py:43-49):
\* devices is _devices, states is coordinator.data or bridge._states,
\* formats and attributes are the keys of _formats and _attributes,
\* adapters is _adapters (None: no entry), fetches counts the getAdapter
\* requests and fetch_failed holds the drivers of those that failed, load
\* is the running _load_devices with its local states, mqtt_connects
\* counts the broker's accepted connections and mqtt_ready the scheduled
\* _on_mqtt_ready coroutines that have not run yet
NoCat == [devices |-> Empty, states |-> Empty, formats |-> {},
          attributes |-> {}, adapters |-> [d \in Drivers |-> None],
          fetches |-> [d \in Drivers |-> 0], fetch_failed |-> {},
          load |-> [state |-> "idle", todo |-> <<>>, states |-> Empty],
          mqtt_connected |-> FALSE, mqtt_connects |-> 0, mqtt_ready |-> 0,
          loads |-> 0, updates |-> 0]

NoOp == [kind |-> "none", pc |-> "none"]
Op(k, p) == [kind |-> k, pc |-> p]

\* the coroutine that runs the connect / disconnect / load in progress
Owner(s) ==
    IF s.setup = "running" THEN "setup"
    ELSE IF s.shut = "running" THEN "shutdown"
    ELSE "reconnect"

---------------------------------------------------------------------------
\* PushokHubCoordinator: the handlers that run when a link operation ends

Finished(t) == t \in {"none", "done", "cancelled"}

\* a scheduler without the check of the running task
schedule_reconnect_unguarded(s) ==
    [s EXCEPT !.reconnect_task = "sleep", !.loops = @ + 1]

\* _schedule_reconnect (coordinator.py:269-274)
schedule_reconnect(s) ==
    IF ~Finished(s.reconnect_task)
    THEN s
    ELSE [s EXCEPT !.reconnect_task = "sleep", !.loops = @ + 1]

\* the except clause of the coroutine whose connect() or _load_devices()
\* raised: async_setup (coordinator.py:142-145) schedules the reconnect and
\* returns False, _reconnect_loop (coordinator.py:293-294) sleeps again
\* in the bridge nothing catches it: start() raises (bridge.py:64-65,
\* __main__.py:240-245)
task_except(s) ==
    IF s.app = "bridge"
    THEN [s EXCEPT !.op = NoOp, !.setup = "raised"]
    ELSE IF Owner(s) = "setup"
    THEN schedule_reconnect([s EXCEPT !.op = NoOp, !.setup = "failed"])
    ELSE [s EXCEPT !.op = NoOp, !.reconnect_task = "sleep"]

\* _load_devices returned: async_setup returns True (coordinator.py:141),
\* _reconnect_loop breaks (coordinator.py:291-292)
\* start() goes on to MQTT and its main loop (bridge.py:67-75)
task_loaded(s) ==
    IF Owner(s) = "setup"
    THEN [s EXCEPT !.op = NoOp, !.setup = "ok", !.loaded = s.ws]
    ELSE [s EXCEPT !.op = NoOp, !.reconnect_task = "done", !.loops = @ - 1,
                   !.loaded = s.ws]

---------------------------------------------------------------------------
\* PushokHubClient._send_command

\* _send_command up to its first await (client.py:258-272): no transport
\* raises "Not connected"; otherwise the next id is taken and the slot
\* registered; a send on a closed transport raises and the finally clause
\* pops the slot again (client.py:282-283)
send_command(s, owner, m) ==
    IF s.ws = 0
    THEN [s |-> s, out |-> "notconnected"]
    ELSE LET cmd_id == s.command_id + 1
             s1 == [s EXCEPT !.command_id = cmd_id]
         IN  IF s.transport[s.ws] = "open"
             THEN [s |-> [s1 EXCEPT
                            !.pending_commands = @ \cup {cmd_id},
                            !.calls = @ @@ (cmd_id :>
                                [owner |-> owner, m |-> m, fut |-> "pending",
                                 resp |-> NoFrame, doomed |-> FALSE])],
                   out |-> "pending"]
             ELSE [s |-> s1, out |-> "sendfail"]

\* a _send_command that returns without its finally clause
pop_command_keep_slot(s, cmd_id) ==
    [s EXCEPT !.calls = Without(@, cmd_id)]

\* the finally clause of _send_command (client.py:282-283)
pop_command(s, cmd_id) ==
    [s EXCEPT !.pending_commands = @ \ {cmd_id},
              !.calls = Without(@, cmd_id)]

\* get_devices (client.py:351), the first request of _load_devices
\* (coordinator.py:159-166); an exception here leaves _load_devices
load_devices(s) ==
    LET r == send_command(s, "load", "listObjects")
    IN  IF r.out = "pending"
        THEN [r.s EXCEPT !.op = Op("load", "listObjects")]
        ELSE task_except(r.s)

\* connect() returned to async_setup (coordinator.py:139-140) or to
\* _reconnect_loop (coordinator.py:289-290)
task_connected(s) == load_devices(s)

\* connect(): except Exception (client.py:147-150)
connect_except(s) ==
    task_except(Emit([s EXCEPT !.connected = FALSE, !.authorized = FALSE,
                               !.hs = NoHandshake],
                     "connect_failed", 0, "none"))

\* connect() after _authenticate returned (client.py:143-145)
connect_return(s) ==
    task_connected([s EXCEPT !.authorized = TRUE, !.hs = NoHandshake])

\* one request of the handshake (client.py:182, 187, 204, 223)
handshake_send(s, m) ==
    LET r == send_command(s, "connect", m)
        n == [r.s EXCEPT !.hs.runs = IF m = "pubKey" THEN @ + 1 ELSE @,
                         !.hs.addUsers = IF m = "addUser" THEN @ + 1 ELSE @,
                         !.op = Op("connect", m)]
    IN  IF r.out = "pending" THEN n ELSE connect_except(r.s)

\* _try_register_user (client.py:219-230)
try_register_user(s) == handshake_send(s, "addUser")

\* the reply f to handshake request m must be followed by a registration:
\* the challenge does not decrypt (client.py:194-200) or authenticate is
\* not authorized (client.py:209-214)
NeedsRegister(m, f) ==
    \/ m = "challenge" /\ f.body = "bad"
    \/ m = "authenticate" /\ f.body \notin {"good", "forged"}

\* a handshake that goes on to its next request whatever the reply holds
authenticate_step_unchecked(s, m, raised, f) ==
    IF raised THEN connect_except(s)
    ELSE IF m = "pubKey" THEN handshake_send(s, "challenge")
    ELSE IF m = "challenge" THEN handshake_send(s, "authenticate")
    ELSE IF m = "authenticate" THEN connect_return(Emit(s, "ready", 0, f.body))
    ELSE handshake_send(s, "pubKey")

\* _authenticate and _try_register_user resumed with the reply f to their
\* request m (client.py:183-217, 232-240); raised is a CommandError
authenticate_step(s, m, raised, f) ==
    IF raised THEN connect_except(s)
    ELSE IF NeedsRegister(m, f) THEN try_register_user(s)
    ELSE IF m = "pubKey"
         THEN IF f.body = "good" THEN handshake_send(s, "challenge")
              ELSE connect_except(s)
    ELSE IF m = "challenge"
         THEN IF f.body = "good" THEN handshake_send(s, "authenticate")
              ELSE connect_except(s)
    ELSE IF m = "authenticate"
         THEN connect_return(Emit(s, "ready", 0, f.body))
    ELSE \* addUser
         IF f.body = "good" THEN handshake_send(s, "pubKey")
         ELSE connect_except(s)

\* get_devices resumed with the reply to listObjects (client.py:351-358)
load_step(s, raised, f) ==
    IF raised \/ f.body = "malformed" THEN task_except(s) ELSE task_loaded(s)

\* _handle_set_command at the next resolved field (bridge.py:289-298): one
\* set_state per field; an exception of set_state is caught nowhere and
\* ends the coroutine
set_issue(s) ==
    IF s.setcmd.issued = s.setcmd.fields
    THEN [s EXCEPT !.setcmd.state = "done"]
    ELSE LET r == send_command(s, "set", "setState")
             n == [r.s EXCEPT !.setcmd.issued = @ + 1]
         IN  IF r.out = "pending"
             THEN n
             ELSE Emit([n EXCEPT !.setcmd.state = "aborted"],
                       "set_failed", n.setcmd.issued, "send")

\* _handle_set_command resumed by set_state (bridge.py:298, client.py:401-410)
set_step(s, raised) ==
    IF raised
    THEN Emit([s EXCEPT !.setcmd.state = "aborted"],
              "set_failed", s.setcmd.issued, "reply")
    ELSE set_issue(s)

\* the coroutine that awaited _send_command goes on: raised tells whether
\* _send_command raised a CommandError
resume_caller(s, c, raised, f) ==
    IF c.owner = "connect" THEN authenticate_step(s, c.m, raised, f)
    ELSE IF c.owner = "load" THEN load_step(s, raised, f)
    ELSE IF c.owner = "set" THEN set_step(s, raised)
    ELSE s

\* the coroutine that awaited _send_command gets the CancelledError of its
\* cancelled future
cancelled_caller(s, c) ==
    IF c.owner = "set" THEN [s EXCEPT !.setcmd.state = "cancelled"] ELSE s

---------------------------------------------------------------------------
\* PushokHubClient.connect and disconnect

\* connect() up to its first await, websockets.connect (client.py:125-137)
connect_begin(s) ==
    [s EXCEPT !.op = Op("connect", "opening"), !.hs = NoHandshake]

\* connect() once the transport c is open (client.py:133-142): the receive
\* loop is started and the handshake sends pubKey
connect_opened(s, c) ==
    handshake_send([s EXCEPT !.ws = c, !.transport[c] = "open",
                             !.connected = TRUE, !.receive_task = c,
                             !.recv[c] = "running"],
                   "pubKey")

\* async_shutdown is done (coordinator.py:156-157); in _reconnect_loop,
\* connect() follows disconnect() (coordinator.py:288-289)
task_disconnected(s) ==
    IF Owner(s) = "shutdown"
    THEN [s EXCEPT !.op = NoOp, !.shut = "done"]
    ELSE connect_begin(s)

\* a disconnect() that clears the table and cancels no future
clear_pending(s) == [s EXCEPT !.pending_commands = {}]

\* disconnect(): every future not done is cancelled and the table cleared
\* (client.py:169-173)
cancel_pending(s) ==
    [s EXCEPT !.calls = [i \in DOMAIN s.calls |->
                            IF i \in s.pending_commands /\ s.calls[i].fut = "pending"
                            THEN [s.calls[i] EXCEPT !.fut = "cancelled"]
                            ELSE s.calls[i]],
              !.pending_commands = {}]

\* disconnect() after the transport is closed (client.py:167-173)
disconnect_finish(s) ==
    task_disconnected(Emit(cancel_pending([s EXCEPT !.ws = 0]),
                           "disconnect_done", 0, "none"))

\* disconnect() after the receive task is awaited (client.py:163-166):
\* closing the transport is the next await
disconnect_close(s) ==
    LET s1 == [s EXCEPT !.receive_task = 0]
    IN  IF s1.ws # 0
        THEN [s1 EXCEPT !.transport[s1.ws] = "closed",
                        !.op = Op("disconnect", "awaitClose")]
        ELSE disconnect_finish(s1)

\* a disconnect() that leaves the receive task alone
disconnect_keep_task(s) ==
    disconnect_close([s EXCEPT !.connected = FALSE, !.authorized = FALSE,
                               !.calls = [i \in DOMAIN s.calls |->
                                            [s.calls[i] EXCEPT
                                               !.doomed = (s.calls[i].fut = "pending")]]])

\* disconnect() up to its first await (client.py:152-160): a receive task
\* that still runs is cancelled and awaited.  The commands that await a
\* response at this moment are marked.
disconnect(s) ==
    LET s1 == [s EXCEPT !.connected = FALSE, !.authorized = FALSE,
                        !.calls = [i \in DOMAIN s.calls |->
                                     [s.calls[i] EXCEPT
                                        !.doomed = (s.calls[i].fut = "pending")]]]
    IN  IF s1.receive_task # 0 /\ s1.recv[s1.receive_task] = "running"
        THEN [s1 EXCEPT !.recv[s1.receive_task] = "done",
                        !.op = Op("disconnect", "awaitTask")]
        ELSE disconnect_close(s1)

\* one call of disconnect() from its first statement to its return
\* (client.py:152-173), as stop() awaits it (bridge.py:86-87), with no
\* other coroutine run at its two awaits
disconnect_call(s) ==
    LET a == disconnect([s EXCEPT !.setup = "ok", !.shut = "running"])
        b == IF a.op = Op("disconnect", "awaitTask") THEN disconnect_close(a) ELSE a
    IN  IF b.op = Op("disconnect", "awaitClose") THEN disconnect_finish(b) ELSE b

---------------------------------------------------------------------------
\* PushokHubClient._receive_loop

\* the except clauses of _receive_loop (client.py:315-328)
receive_fault(s, c) ==
    LET was_connected == s.connected
        s1 == Emit([s EXCEPT !.connected = FALSE, !.authorized = FALSE,
                             !.recv[c] = "done"],
                   "loop_fault", c, "none")
    IN  IF was_connected /\ s.connection_lost_callback
        THEN Emit(s1, "connection_lost", c, "none")
        ELSE s1

\* a receive loop that correlates by arrival order: the oldest waiting slot
MatchOldestPending(s, f) ==
    IF f.id # 0 /\ s.pending_commands # {}
    THEN CHOOSE i \in s.pending_commands : \A j \in s.pending_commands : i <= j
    ELSE 0

\* the slot a response frame completes, 0 if none (client.py:309-310)
MatchPending(s, f) ==
    IF f.id # 0 /\ f.id \in s.pending_commands THEN f.id ELSE 0

\* a receive loop that looks at the id before the broadcast envelope
IdBeforeBroadcast(f) == f.broadcast /\ f.id = 0

\* the frame is handled as a broadcast (client.py:304)
IsBroadcast(f) == f.broadcast

\* _handle_broadcast (client.py:330-336); an observer that raises ends the
\* loop through except Exception (client.py:322-328).  The event tells
\* whether the observer raised and, if not, whether the broadcast carried
\* the id of a waiting command.
handle_broadcast(s, c, f) ==
    IF ~s.broadcast_callback THEN s
    ELSE IF f.raises THEN receive_fault(Emit(s, "observer", 0, "raised"), c)
    ELSE Emit(s, "observer", 0,
              IF f.id \in s.pending_commands THEN "pending_id" ELSE "no_id")

\* future.done() (client.py:312): the future of a coroutine that has left
\* _send_command is done, with its result, its exception or cancelled
FutureDone(s, cmd_id) ==
    cmd_id \notin DOMAIN s.calls \/ s.calls[cmd_id].fut # "pending"

\* a response envelope (client.py:309-313)
handle_response(s, f) ==
    LET cmd_id == MatchPending(s, f)
    IN  IF cmd_id = 0 THEN s
        ELSE IF FutureDone(s, cmd_id) THEN s
        ELSE [s EXCEPT !.calls[cmd_id].fut = "result", !.calls[cmd_id].resp = f]

\* one iteration of the receive loop of transport c (client.py:291-313)
receive_frame(s, c, f) ==
    IF f.type = "binary" THEN s
    ELSE IF f.type = "badjson" THEN s
    ELSE IF f.type = "nondict" THEN receive_fault(s, c)
    ELSE IF IsBroadcast(f) THEN handle_broadcast(s, c, f)
    ELSE handle_response(s, f)

---------------------------------------------------------------------------
\* PushokHubCoordinator.async_setup, _reconnect_loop, async_shutdown

\* the command the coroutine running the link operation is awaiting
OwnedCall(s) == CHOOSE i \in DOMAIN s.calls : s.calls[i].owner # "user"

\* _reconnect_task.cancel() (coordinator.py:149-150), by where the loop
\* waits: in its sleep, in connect() or in _load_devices() the CancelledError
\* ends the task (a command it awaits leaves through the finally clause,
\* client.py:282-283); while disconnect() awaits the receive task the error
\* is caught by disconnect() itself (client.py:159-162) and the loop goes on
cancel_reconnect(s) ==
    IF Finished(s.reconnect_task) THEN s
    ELSE IF s.op = Op("disconnect", "awaitTask") THEN s
    ELSE LET s1 == IF s.op.kind \in {"connect", "load"} /\ s.op.pc # "opening"
                   THEN pop_command(s, OwnedCall(s))
                   ELSE s
         IN  [s1 EXCEPT !.op = NoOp, !.reconnect_task = "cancelled",
                        !.loops = @ - 1, !.hs = NoHandshake]

\* async_shutdown once the reconnect task is finished (coordinator.py:156-157)
shutdown_disconnect(s) == disconnect([s EXCEPT !.shut = "running"])

\* async_shutdown up to its first await (coordinator.py:147-157)
async_shutdown(s) ==
    LET s1 == cancel_reconnect(s)
    IN  IF Finished(s1.reconnect_task)
        THEN shutdown_disconnect(s1)
        ELSE [s1 EXCEPT !.shut = "awaitReconnect"]

\* async_setup up to its first await (coordinator.py:130-139)
async_setup(s) ==
    connect_begin([s EXCEPT !.client = TRUE, !.broadcast_callback = TRUE,
                            !.setup = "running"])

\* PushokMqttBridge.start up to its first await (bridge.py:58-109)
bridge_start(s) ==
    connect_begin([s EXCEPT !.client = TRUE, !.broadcast_callback = TRUE,
                            !.setup = "running"])

\* PushokMqttBridge.stop (bridge.py:77-87)
bridge_stop(s) ==
    IF s.client THEN shutdown_disconnect(s) ELSE [s EXCEPT !.shut = "done"]

\* a reconnect cycle that connects without disconnecting first
reconnect_loop_no_disconnect(s) ==
    IF s.client /\ s.connected
    THEN [s EXCEPT !.reconnect_task = "done", !.loops = @ - 1]
    ELSE IF s.client
         THEN connect_begin([s EXCEPT !.reconnect_task = "attempt"])
         ELSE s

\* one iteration of _reconnect_loop after its sleep (coordinator.py:279-289)
reconnect_loop(s) ==
    IF s.client /\ s.connected
    THEN [s EXCEPT !.reconnect_task = "done", !.loops = @ - 1]
    ELSE IF s.client
         THEN disconnect([s EXCEPT !.reconnect_task = "attempt"])
         ELSE s

---------------------------------------------------------------------------
\* The state after construction (client.py:80-88, coordinator.py:56-62)

InitApp(a) ==
    /\ app = a
    /\ loaded = 0
    /\ setcmd = NoSet
    /\ auth = NoAuth
    /\ cat = NoCat
    /\ client = FALSE
    /\ ws = 0
    /\ transport = [c \in Conns |-> "unopened"]
    /\ receive_task = 0
    /\ recv = [c \in Conns |-> "none"]
    /\ connected = FALSE
    /\ authorized = FALSE
    /\ command_id = 0
    /\ pending_commands = {}
    /\ connection_lost_callback = FALSE
    /\ broadcast_callback = FALSE
    /\ calls = [i \in {} |-> 0]
    /\ op = NoOp
    /\ setup = "init"
    /\ reconnect_task = "none"
    /\ shut = "idle"
    /\ hs = NoHandshake
    /\ loops = 0
    /\ userCalls = 0
    /\ ev = {}

\* no function is applied by itself
NoCall == input = None /\ output = None

\* Home Assistant runs the coordinator
Init == InitApp("coordinator") /\ NoCall

\* a step ends in state s; the bound caps the ids
Step(s) ==
    /\ s.command_id <= MaxCmd
    /\ Apply(s)

\* the ids the hub puts in its frames: none, of a waiting command, of the
\* last command that has left its slot
FrameIds ==
    pending_commands \cup {0}
    \cup {i \in 1..command_id :
            /\ i \notin pending_commands
            /\ \A j \in 1..command_id : j \notin pending_commands => j <= i}

\* the results the hub gives that the awaiting caller tells apart: the
\* handshake reads the key, the challenge and the authorization
\* (client.py:183-216, 232), get_devices iterates the list (client.py:353),
\* set_state only passes the result on (client.py:410)
Replies(f) ==
    IF f.broadcast \/ f.id \notin DOMAIN calls THEN {"good"}
    ELSE IF calls[f.id].owner = "connect"
         THEN IF calls[f.id].m = "authenticate" THEN Bodies
              ELSE Bodies \ {"forged"}
    ELSE IF calls[f.id].owner = "load" THEN {"good", "malformed"}
    ELSE {"good"}

---------------------------------------------------------------------------
\* Actions

\* Home Assistant sets the entry up (__init__.py:46-48)
Setup ==
    /\ setup = "init"
    /\ Step(async_setup(S))

\* websockets.connect returns a transport or raises (client.py:133-137)
ConnectOpen ==
    /\ op = Op("connect", "opening")
    /\ \E ok \in BOOLEAN :
        IF ok
        THEN /\ \E c \in Conns : transport[c] = "unopened"
             /\ Step(connect_opened(S, CHOOSE c \in Conns :
                        /\ transport[c] = "unopened"
                        /\ \A d \in Conns : transport[d] = "unopened" => c <= d))
        ELSE Step(connect_except(S))

\* the hub sends a frame and the receive loop of that transport handles it
ReceiveFrame ==
    \E c \in Conns :
        /\ recv[c] = "running"
        /\ transport[c] = "open"
        /\ LET ids == FrameIds
               s0 == S
           IN  \E f \in Frames :
                /\ f.id \in ids
                /\ f.body \in Replies(f)
                /\ Step(receive_frame(s0, c, f))

\* the transport closes under the receive loop: with an error the async
\* iterator raises ConnectionClosed (client.py:315), after a clean close
\* handshake it just ends (client.py:291)
HubClose ==
    \E c \in Conns, how \in {"error", "clean"} :
        /\ transport[c] = "open"
        /\ LET s1 == [S EXCEPT !.transport[c] = "closed"]
           IN  IF recv[c] # "running" THEN Step(s1)
               ELSE IF how = "error" THEN Step(receive_fault(s1, c))
               ELSE Step([s1 EXCEPT !.recv[c] = "done"])

\* _send_command resumes with its future done (client.py:273-283)
CompleteCall ==
    \E i \in DOMAIN calls :
        LET c == calls[i]
            s1 == pop_command(S, i)
        IN  /\ c.fut # "pending"
            /\ c.fut = "cancelled" => c.owner \in {"user", "set"}
            /\ IF c.fut = "cancelled"
               THEN Step(cancelled_caller(s1, c))
               ELSE Step(resume_caller(s1, c, c.resp.error, c.resp))

\* a wait for the future with no time limit
WaitForever == FALSE /\ UNCHANGED vars

\* wait_for gives up after COMMAND_TIMEOUT (client.py:273, 280-283)
Timeout ==
    \E i \in DOMAIN calls :
        LET c == calls[i]
            s1 == pop_command(S, i)
        IN  /\ c.fut = "pending"
            /\ Step(resume_caller(Emit(s1, "invoke_timeout", i, "none"),
                                  c, TRUE, NoFrame))

\* an entity writes a field: async_set_device_state -> set_state ->
\* _send_command (coordinator.py:296-315, client.py:401-410)
UserInvoke ==
    /\ client
    /\ userCalls < MaxUserCalls
    /\ Step([send_command(S, "user", "setState").s EXCEPT !.userCalls = @ + 1])

\* set_connection_lost_callback (client.py:115-123)
SetConnectionLostCallback ==
    /\ client
    /\ ~connection_lost_callback
    /\ Step([S EXCEPT !.connection_lost_callback = TRUE])

\* RECONNECT_INTERVAL has passed (coordinator.py:279)
ReconnectWake ==
    /\ reconnect_task = "sleep"
    /\ Step(reconnect_loop(S))

\* disconnect() resumes after the cancelled receive task (client.py:160-166)
DisconnectTaskDone ==
    /\ op = Op("disconnect", "awaitTask")
    /\ Step(disconnect_close(S))

\* disconnect() resumes after the close of the transport (client.py:166-173)
DisconnectClosed ==
    /\ op = Op("disconnect", "awaitClose")
    /\ Step(disconnect_finish(S))

\* Home Assistant unloads the entry (__init__.py:55)
Shutdown ==
    /\ setup \in {"ok", "failed"}
    /\ shut = "idle"
    /\ Step(async_shutdown(S))

\* async_shutdown resumes when the reconnect task has ended
\* (coordinator.py:152-157)
ShutdownResume ==
    /\ shut = "awaitReconnect"
    /\ Finished(reconnect_task)
    /\ Step(shutdown_disconnect(S))

Next ==
    \/ Setup
    \/ ConnectOpen
    \/ ReceiveFrame
    \/ HubClose
    \/ CompleteCall
    \/ Timeout
    \/ UserInvoke
    \/ ReconnectWake
    \/ DisconnectTaskDone
    \/ DisconnectClosed
    \/ Shutdown
    \/ ShutdownResume

Spec == Init /\ [][Next]_vars

---------------------------------------------------------------------------
\* The MQTT bridge on the same link

MaxFields == 2     \* resolved fields of one set command

InitBridge == InitApp("bridge") /\ NoCall

\* __main__ starts the bridge (__main__.py:228-241)
BridgeStart ==
    /\ app = "bridge"
    /\ setup = "init"
    /\ Step(bridge_start(S))

\* a set message arrives for a known device with n fields that resolve to
\* adapter parameters (bridge.py:214-221, 275-298)
BridgeSetCommand ==
    /\ app = "bridge"
    /\ setup = "ok"
    /\ shut = "idle"
    /\ setcmd.state = "idle"
    /\ \E n \in 1..MaxFields :
        Step(set_issue([S EXCEPT !.setcmd = [state |-> "running", fields |-> n,
                                             issued |-> 0]]))

\* a signal, or the finally clause of main after start() raised
\* (__main__.py:234-245)
BridgeStop ==
    /\ app = "bridge"
    /\ setup \in {"ok", "raised"}
    /\ shut = "idle"
    /\ Step(bridge_stop(S))

NextBridge ==
    \/ BridgeStart
    \/ ConnectOpen
    \/ ReceiveFrame
    \/ HubClose
    \/ CompleteCall
    \/ Timeout
    \/ BridgeSetCommand
    \/ BridgeStop
    \/ DisconnectTaskDone
    \/ DisconnectClosed

SpecBridge == InitBridge /\ [][NextBridge]_vars

---------------------------------------------------------------------------
\* Conversion programs of an adapter parameter (entity.py:120-202,
\* bridge.py:290-298, 337-339, 352-353, 363-391).  A number is a record: t
\* its Python type, q its value in hundredths (a decimal fixed point stands
\* for the doubles of the program)

MaxProgram == 3    \* tokens of a conversion program

Scale == 100

Num(type, hundredths) == [t |-> type, q |-> hundredths]

\* float(x)
float(x) == Num("float", x.q)

\* int(x): towards zero
trunc(x) ==
    Num("int", IF x.q >= 0 THEN (x.q \div Scale) * Scale
               ELSE 0 - (((0 - x.q) \div Scale) * Scale))

\* the type of the result of an arithmetic operator
Wider(a, b) == IF a.t = "float" \/ b.t = "float" THEN "float" ELSE "int"

Add(a, b) == Num(Wider(a, b), a.q + b.q)

Sub(a, b) == Num(Wider(a, b), a.q - b.q)

Mul(a, b) == Num(Wider(a, b), (a.q * b.q) \div Scale)

\* true division, of a divisor that is not 0
Div(a, b) == Num("float", (a.q * Scale) \div b.q)

\* what a call gives: a value, or the exception it raises
Return(x) == [raised |-> "", value |-> x]

Raise(e) == [raised |-> e, value |-> Num("int", 0)]

\* the tokens of a program: the word self, a number of the adapter's JSON,
\* or one of the four operator words
Self == [k |-> "self", num |-> Num("int", 0), o |-> ""]

Lit(x) == [k |-> "lit", num |-> x, o |-> ""]

Operator(o) == [k |-> "op", num |-> Num("int", 0), o |-> o]

Tokens ==
    {Self, Lit(Num("int", 0)), Lit(Num("float", 255)), Lit(Num("int", 200))}
        \cup {Operator(o) : o \in {"+", "-", "*", "/"}}

Programs == UNION {[1..n -> Tokens] : n \in 0..MaxProgram}

\* entity.py:183-202, the loop over the rules from the stack so far
RECURSIVE entity_run(_, _, _)
entity_run(rules, value, stack) ==
    IF rules = <<>>
    THEN Return(IF stack # <<>> THEN stack[1] ELSE value)
    ELSE LET item == Head(rules)
             n == Len(stack)
             rest == SubSeq(stack, 1, n - 2)
             b == stack[n]
             a == stack[n - 1]
         IN IF item.k = "self"
            THEN entity_run(Tail(rules), value, Append(stack, float(value)))
            ELSE IF item.k = "lit"
            THEN entity_run(Tail(rules), value, Append(stack, float(item.num)))
            ELSE IF n = 0 THEN Raise("IndexError")
            ELSE IF n = 1 THEN Raise("IndexError")
            ELSE IF item.o = "+"
            THEN entity_run(Tail(rules), value, Append(rest, Add(a, b)))
            ELSE IF item.o = "-"
            THEN entity_run(Tail(rules), value, Append(rest, Sub(a, b)))
            ELSE IF item.o = "*"
            THEN entity_run(Tail(rules), value, Append(rest, Mul(a, b)))
            ELSE entity_run(Tail(rules), value,
                            Append(rest, IF b.q # 0 THEN Div(a, b)
                                         ELSE Num("int", 0)))

\* entity.py:166-202
entity_apply_conversion(value, rules) ==
    IF rules = <<>> THEN Return(value) ELSE entity_run(rules, value, <<>>)

\* entity.py:120-143, of a number that is no bool
convert_from_device(value, conversion) ==
    IF conversion = <<>> THEN Return(value)
    ELSE entity_apply_conversion(value, conversion)

\* entity.py:145-164
convert_to_device(value, inversion) ==
    IF inversion = <<>> THEN Return(value)
    ELSE entity_apply_conversion(value, inversion)

\* bridge.py:363-391: the second token is the operand and the third the
\* operation, whatever the first; float() of a word is a ValueError, which
\* is caught and gives the value back; a ZeroDivisionError is not caught
bridge_apply_conversion(value, formula) ==
    IF Len(formula) < 3 THEN Return(value)
    ELSE IF formula[2].k # "lit" THEN Return(value)
    ELSE LET operand == float(formula[2].num)
             operation == formula[3]
         IN IF operation.k # "op" THEN Return(value)
            ELSE IF operation.o = "+" THEN Return(Add(value, operand))
            ELSE IF operation.o = "-" THEN Return(Sub(value, operand))
            ELSE IF operation.o = "*"
            THEN Return(IF operand.t = "int" THEN trunc(Mul(value, operand))
                        ELSE Mul(value, operand))
            ELSE IF operand.q = 0 THEN Raise("ZeroDivisionError")
            ELSE Return(Div(value, operand))

\* bridge.py:343-361, of a parameter without labels
convert_number_from_hub(value, conversion) ==
    bridge_apply_conversion(value, conversion)

\* bridge.py:317-341, of a number: the label lookup is for strings
convert_number_for_hub(value, inversion) ==
    bridge_apply_conversion(value, inversion)

---------------------------------------------------------------------------
\* The device registry of the coordinator (coordinator.py:159-267) and of
\* the bridge (bridge.py:116-149, 254-273, 460-497); the link is reduced to
\* the results of its requests and to the broadcasts it delivers

MaxLoads == 2     \* runs of _load_devices (the bridge loads once)
MaxUpdates == 1   \* broadcasts delivered
MaxVersion == 2   \* adapter versions the hub serves

Devices == {1, 2}

Put(f, k, v) == [x \in DOMAIN f \cup {k} |-> IF x = k THEN v ELSE f[x]]

\* DeviceDescription.from_dict of a listObjects entry (models.py:44-60)
DeviceDescription(d, drv, warn) ==
    [id |-> d, manufacturer |-> "Pushok", model |-> "PS", network_id |-> d,
     driver |-> drv, last_seen |-> 1, lqi |-> 1, warning |-> warn]

\* an entry of the listObjects result; one without id raises KeyError in
\* DeviceDescription.from_dict (models.py:48)
Item(d, drv, warn) == [id |-> d, drv |-> drv, warn |-> warn]

\* what listObjects can return: device 1 with driver A and no warning,
\* alone or followed by device 2 that has driver A or B and its warning
\* set, and before them possibly an entry that has no id
ListResults ==
    {junk \o <<Item(1, "A", FALSE)>> \o rest :
        junk \in {<<>>, <<Item(None, "A", FALSE)>>},
        rest \in {<<>>} \cup {<<Item(2, drv, TRUE)>> : drv \in Drivers}}

\* a parse that gives up at the first entry it cannot parse
RECURSIVE get_devices_strict(_)
get_devices_strict(result) ==
    IF result = <<>> \/ Head(result).id = None THEN <<>>
    ELSE <<DeviceDescription(Head(result).id, Head(result).drv, Head(result).warn)>>
         \o get_devices_strict(Tail(result))

\* client.py:351-358: the entries that parse, in their order
RECURSIVE get_devices(_)
get_devices(result) ==
    IF result = <<>> THEN <<>>
    ELSE LET item == Head(result)
         IN (IF item.id = None THEN <<>>
             ELSE <<DeviceDescription(item.id, item.drv, item.warn)>>)
            \o get_devices(Tail(result))

PropertyValue(v, t, a) == [value |-> v, time |-> t, ack |-> a]

\* a JSON value of a numeric key: an object with the keys has, or a scalar
Raw(isdict, has, v, t, a) ==
    [dict |-> isdict, has |-> has, value |-> v, time |-> t, ack |-> a]

\* PropertyValue.from_dict (models.py:17-24)
from_dict(raw) ==
    PropertyValue(IF "value" \in raw.has THEN raw.value ELSE None,
                  IF "time" \in raw.has THEN raw.time ELSE None,
                  IF "ack" \in raw.has THEN raw.ack ELSE FALSE)

DeviceState(d, properties, crc) ==
    [device_id |-> d, properties |-> properties, adapter_crc |-> crc]

\* str.isdigit and int of the keys the hub uses
isdigit(key) == key \in {"1", "2"}

int(key) == IF key = "1" THEN 1 ELSE 2

\* the loop over props (coordinator.py:257-261, bridge.py:268-270,
\* models.py:122-124)
update_properties(properties, props) ==
    LET carried == {k \in DOMAIN props : isdigit(k) /\ props[k].dict}
        ids == {int(k) : k \in carried}
    IN [f \in DOMAIN properties \cup ids |->
            IF f \in ids
            THEN from_dict(props[CHOOSE k \in carried : int(k) = f])
            ELSE properties[f]]

\* DeviceState.from_dict of the getState result (models.py:108-130): the
\* hub reports field 1 and the adapter crc 1
LoadedState(d) ==
    DeviceState(d, update_properties(Empty, "1" :> Raw(TRUE, {"value"}, 1, None, FALSE)), 1)

\* the props of an object_update broadcast
MetaProps ==
    {a @@ b @@ c @@ e : a \in {Empty, "lqi" :> 2}, b \in {Empty, "lse" :> 2},
                        c \in {Empty, "warn" :> TRUE, "warn" :> FALSE},
                        e \in {Empty, "adptr-crc" :> 2}}

FieldProps ==
    {a @@ b : a \in {Empty, "1" :> Raw(TRUE, {"value", "time", "ack"}, 2, 5, TRUE)},
              b \in {Empty, "2" :> Raw(TRUE, {"value"}, 2, None, FALSE),
                      "2" :> Raw(FALSE, {}, 2, None, FALSE)}}

\* the broadcasts: for a listed device, for device 3 that is never listed,
\* or with no id
Updates ==
    {[evt |-> "object_update", id |-> i, props |-> m @@ f] :
        i \in Devices \cup {3, None}, m \in MetaProps, f \in FieldProps}
    \cup {[evt |-> "other", id |-> 1, props |-> Empty]}

\* DataUpdateCoordinator.async_set_updated_data: sets data, notifies the
\* listeners
async_set_updated_data(s, data) ==
    Emit([s EXCEPT !.cat.states = data], "notify", 0, "none")

\* a merge that takes every description field from the update, whether
\* carried or not
coordinator_object_update_dense(s, u) ==
    IF u.id = None \/ u.id \notin DOMAIN s.cat.devices
    THEN Emit(s, "object_update", u.id, "ignored")
    ELSE LET props == u.props
             get(k) == IF k \in DOMAIN props THEN props[k] ELSE None
             s1 == [s EXCEPT !.cat.devices[u.id].lqi = get("lqi"),
                             !.cat.devices[u.id].last_seen = get("lse"),
                             !.cat.devices[u.id].warning =
                                 IF "warn" \in DOMAIN props THEN props["warn"]
                                 ELSE FALSE]
         IN async_set_updated_data(Emit(s1, "object_update", u.id, "accepted"),
                                   s.cat.states)

\* coordinator.py:216-267
coordinator_object_update(s, u) ==
    IF u.id = None \/ u.id \notin DOMAIN s.cat.devices
    THEN Emit(s, "object_update", u.id, "ignored")
    ELSE LET props == u.props
             has(k) == k \in DOMAIN props
             s1 == [s EXCEPT
                     !.cat.devices[u.id].lqi = IF has("lqi") THEN props["lqi"] ELSE @,
                     !.cat.devices[u.id].last_seen = IF has("lse") THEN props["lse"] ELSE @,
                     !.cat.devices[u.id].warning = IF has("warn") THEN props["warn"] ELSE @]
             current_state == IF u.id \in DOMAIN s.cat.states
                              THEN s.cat.states[u.id]
                              ELSE DeviceState(u.id, Empty, None)
             new_state == [current_state EXCEPT
                            !.properties = update_properties(@, props),
                            !.adapter_crc = IF has("adptr-crc")
                                            THEN props["adptr-crc"] ELSE @]
         IN async_set_updated_data(Emit(s1, "object_update", u.id, "accepted"),
                                   Put(s.cat.states, u.id, new_state))

\* bridge.py:419-422
publish(s, k, i, x) == IF s.cat.mqtt_connected THEN Emit(s, k, i, x) ELSE s

\* the topic of device d (bridge.py:405-417)
friendly_name(d) == IF d = 1 THEN "dev1" ELSE "dev2"

\* the adapters the hub serves: those up to MaxVersion carry no conversion,
\* the one after them gives its parameters the conversion [self, 0, /]
DividingAdapter == MaxVersion + 1

adapter_conversion(v) ==
    IF v = DividingAdapter
    THEN <<Self, Lit(Num("int", 0)), Operator("/")>>
    ELSE <<>>

\* AdapterParam.from_dict (models.py:211-228): the name of viewParams, ""
\* for a parameter that has none, and the address
Param(name, address) == [name |-> name, address |-> address]

\* the parameters of the adapters, in the order of params
adapter_params(v) ==
    IF v = 1 THEN <<Param("on", 1), Param("", 2)>>
    ELSE IF v = 2 THEN <<Param("On", 1), Param("on", 2)>>
    ELSE <<Param("on", 1), Param("off", 2)>>

\* models.py:289-294
get_param_by_address(v, address) ==
    \E i \in DOMAIN adapter_params(v) : adapter_params(v)[i].address = address

\* bridge.py:468-480: the value of field f in the payload; without value
\* the arithmetic is a TypeError, which _apply_conversion catches
payload_value(adapter, f, value) ==
    IF value = None THEN Return(None)
    ELSE IF adapter = None \/ ~get_param_by_address(adapter, f)
    THEN Return(Num("int", value * Scale))
    ELSE convert_number_from_hub(Num("int", value * Scale),
                                 adapter_conversion(adapter))

\* an exception has left _publish_device_state
publish_raised(s) == \E e \in s.ev : e.k = "publish" /\ e.x = "raised"

\* bridge.py:460-497: the retained state message, recorded by its
\* linkquality and topic and by its field values, and the retained
\* availability
publish_device_state(s, d) ==
    IF d \notin DOMAIN s.cat.states
    THEN s
    ELSE LET device == s.cat.devices[d]
             state == s.cat.states[d]
             adapter == s.cat.adapters[device.driver]
             values == [f \in DOMAIN state.properties |->
                           payload_value(adapter, f, state.properties[f].value)]
         IN IF \E f \in DOMAIN values : values[f].raised # ""
            THEN Emit(s, "publish", d, "raised")
            ELSE publish(publish(publish(s, "state", device.lqi, friendly_name(d)),
                                 "payload", d,
                                 ToString([f \in DOMAIN values |-> values[f].value])),
                         "availability", d,
                         IF ~device.warning THEN "online" ELSE "offline")

\* bridge.py:254-273
bridge_object_update(s, u) ==
    IF u.id = None \/ u.id \notin DOMAIN s.cat.devices
    THEN Emit(s, "object_update", u.id, "ignored")
    ELSE LET s1 == IF u.id \in DOMAIN s.cat.states
                   THEN [s EXCEPT !.cat.states[u.id].properties =
                                     update_properties(@, u.props)]
                   ELSE s
         IN publish_device_state(Emit(s1, "object_update", u.id, "accepted"), u.id)

\* an update handled without looking its device up
handle_object_update_unchecked(s, u) ==
    async_set_updated_data(Emit(s, "object_update", u.id, "accepted"),
                           Put(s.cat.states, u.id,
                               DeviceState(u.id, update_properties(Empty, u.props), None)))

\* coordinator.py:204-214, bridge.py:244-252
handle_object_update(s, u) ==
    IF u.evt # "object_update"
    THEN Emit(s, "broadcast", u.id, "other")
    ELSE IF s.app = "bridge"
         THEN bridge_object_update(s, u)
         ELSE coordinator_object_update(s, u)

\* the devices of a listing in the order of the loop
RECURSIVE Ordered(_)
Ordered(D) ==
    IF D = {} THEN <<>>
    ELSE LET d == CHOOSE x \in D : \A y \in D : x <= y
         IN <<d>> \o Ordered(D \ {d})

\* the end of the loop (coordinator.py:202; the bridge's load just returns)
load_end(s) ==
    IF s.cat.load.todo # <<>>
    THEN s
    ELSE LET s1 == [s EXCEPT !.cat.load = NoCat.load]
         IN IF s.app = "bridge"
            THEN Emit(s1, "loaded", 0, "none")
            ELSE Emit(async_set_updated_data(s1, s.cat.load.states),
                      "loaded", 0, "none")

\* get_devices has returned devices (coordinator.py:165-169,
\* bridge.py:121-123)
load_begin(s, devices) ==
    LET ids == {devices[i].id : i \in DOMAIN devices}
        dict == [d \in ids |-> devices[CHOOSE i \in DOMAIN devices :
                                            devices[i].id = d]]
    IN load_end([s EXCEPT !.cat.devices = dict,
                          !.cat.loads = @ + 1,
                          !.cat.load = [state |-> "running",
                                        todo |-> [i \in DOMAIN devices |->
                                                     devices[i].id],
                                        states |-> Empty]])

\* getAdapter sent whatever the cache holds
load_adapter_uncached(s, driver, failed, v) ==
    IF failed
    THEN [s EXCEPT !.cat.fetches[driver] = @ + 1,
                   !.cat.fetch_failed = @ \cup {driver}]
    ELSE [s EXCEPT !.cat.fetches[driver] = @ + 1,
                   !.cat.adapters[driver] = v]

\* getAdapter for a driver that has no cached adapter (coordinator.py:183-197,
\* bridge.py:143-149); v is the adapter the hub serves
load_adapter(s, driver, failed, v) ==
    IF s.cat.adapters[driver] # None
    THEN s
    ELSE LET s1 == [s EXCEPT !.cat.fetches[driver] = @ + 1]
         IN IF failed
            THEN [s1 EXCEPT !.cat.fetch_failed = @ \cup {driver}]
            ELSE [s1 EXCEPT !.cat.adapters[driver] = v]

\* one turn of the coordinator's loop: the first failing request ends the
\* turn (coordinator.py:171-200)
coordinator_load_device(s, r) ==
    LET d == Head(s.cat.load.todo)
        s1 == [s EXCEPT !.cat.load.todo = Tail(@)]
        s2 == IF "state" \in r.failed THEN s1
              ELSE [s1 EXCEPT !.cat.load.states = Put(@, d, LoadedState(d))]
        s3 == IF r.failed \cap {"state", "format"} # {} THEN s2
              ELSE [s2 EXCEPT !.cat.formats = @ \cup {d}]
        s4 == IF r.failed \cap {"state", "format", "attributes"} # {} THEN s3
              ELSE load_adapter([s3 EXCEPT !.cat.attributes = @ \cup {d}],
                                s.cat.devices[d].driver,
                                "adapter" \in r.failed, r.version)
    IN load_end(s4)

\* one turn of the bridge's loop: each request has its own try
\* (bridge.py:125-149)
bridge_load_device(s, r) ==
    LET d == Head(s.cat.load.todo)
        s1 == [s EXCEPT !.cat.load.todo = Tail(@)]
        s2 == IF "state" \in r.failed THEN s1
              ELSE [s1 EXCEPT !.cat.states = Put(@, d, LoadedState(d))]
        s3 == IF "attributes" \in r.failed THEN s2
              ELSE [s2 EXCEPT !.cat.attributes = @ \cup {d}]
    IN load_end(load_adapter(s3, s.cat.devices[d].driver,
                             "adapter" \in r.failed, r.version))

\* a turn that ends the load
load_device_abort(s, r) == [s EXCEPT !.cat.load = NoCat.load]

load_device(s, r) ==
    IF s.app = "bridge" THEN bridge_load_device(s, r)
    ELSE coordinator_load_device(s, r)

\* the remaining turns of the loop of _load_devices, each with the
\* outcome r, up to the end of the load (coordinator.py:171-202,
\* bridge.py:125-149)
RECURSIVE finish_load(_, _)
finish_load(s, r) ==
    IF s.cat.load.state # "running" THEN s
    ELSE finish_load(load_device(s, r), r)

\* the requests of one turn that fail
Failures(a) ==
    IF a = "bridge" THEN SUBSET {"state", "attributes", "adapter"}
    ELSE {{}, {"state"}, {"format"}, {"attributes"}, {"adapter"}}

\* bridge.py:184-201, 229-238, 455-458
RECURSIVE publish_all_states(_, _)
publish_all_states(s, todo) ==
    IF todo = <<>> \/ publish_raised(s) THEN s
    ELSE publish_all_states(publish_device_state(s, Head(todo)), Tail(todo))

on_mqtt_connect(s) ==
    publish_all_states(Emit([s EXCEPT !.cat.mqtt_connected = TRUE],
                            "mqtt_ready", 0, "none"),
                       Ordered(DOMAIN s.cat.devices))

\* either program runs the registry
InitCatalog == NoCall /\ \E a \in {"coordinator", "bridge"} : InitApp(a)

\* _load_devices starts: at setup and after every reconnection for the
\* coordinator, once for the bridge
LoadBegin ==
    /\ cat.load.state = "idle"
    /\ cat.loads < (IF app = "bridge" THEN 1 ELSE MaxLoads)
    /\ \E result \in ListResults :
        Step(load_begin(Emit(S, "listObjects", Len(result), "result"),
                        get_devices(result)))

LoadDevice ==
    /\ cat.load.state = "running"
    /\ \E f \in Failures(app), v \in 1..MaxVersion :
        Step(load_device(S, [failed |-> f, version |-> v]))

\* the hub broadcasts
Broadcast ==
    /\ cat.updates < MaxUpdates
    /\ \E u \in Updates :
        Step(handle_object_update([S EXCEPT !.cat.updates = @ + 1], u))

\* the broker accepts the bridge's connection, made after the load
\* (bridge.py:65-68)
MqttConnect ==
    /\ app = "bridge"
    /\ cat.loads > 0
    /\ cat.load.state = "idle"
    /\ ~cat.mqtt_connected
    /\ Step(on_mqtt_connect(S))

NextCatalog ==
    \/ LoadBegin
    \/ LoadDevice
    \/ Broadcast
    \/ MqttConnect

SpecCatalog == InitCatalog /\ [][NextCatalog]_vars

---------------------------------------------------------------------------
\* The handshake object by itself (api/auth.py, PushokAuth), its methods
\* called in any order with any argument

MaxKey == 2     \* gateway public keys
MaxNonce == 3   \* 32-byte nonces

\* raw ECDH of the own private key with gateway key k (auth.py:93): the
\* secrets are numbered after the keys
exchange(k) == MaxKey + k

SharedKeys == {exchange(k) : k \in 1..MaxKey}

\* an encrypted challenge: AES-GCM under key, of plaintext nonce
Challenges == [key : SharedKeys, nonce : 1..MaxNonce]

\* an encrypted gateway signature: base64 text (or not, b64 false) of
\* AES-GCM under key and iv, of a signature made with the private half of
\* signer over msg
Signatures == [b64 : BOOLEAN, key : SharedKeys, iv : 1..MaxNonce,
               signer : 1..MaxKey, msg : 1..MaxNonce]

\* auth.py:82-93; key 0 is bytes that are no point of the curve
set_gateway_public_key(s, key) ==
    IF key = 0
    THEN Emit(s, "set_gateway_public_key", 0, "ValueError")
    ELSE Emit([s EXCEPT !.auth.gateway_public_key = key,
                        !.auth.shared_key = exchange(key)],
              "set_gateway_public_key", 0, "returned")

\* auth.py:95-112
decrypt_challenge(s, c) ==
    IF s.auth.shared_key = 0
    THEN Emit(s, "decrypt_challenge", 0, "RuntimeError")
    ELSE IF c.key # s.auth.shared_key
         THEN Emit(s, "decrypt_challenge", 0, "InvalidTag")
         ELSE Emit([s EXCEPT !.auth.dev_nonce = c.nonce],
                   "decrypt_challenge", 0, "returned")

\* auth.py:114-139; n is the nonce os.urandom gives
create_auth_payload(s, n) ==
    IF s.auth.shared_key = 0 \/ s.auth.dev_nonce = 0
    THEN Emit(s, "create_auth_payload", 0, "RuntimeError")
    ELSE Emit([s EXCEPT !.auth.user_nonce = n],
              "create_auth_payload", 0, "returned")

\* a verification that lets the exceptions of the decoding and of the
\* decryption out and accepts a signature over any nonce
verify_gateway_signature_loose(s, c) ==
    IF ~c.b64
    THEN Emit(s, "verify_gateway_signature", 0, "binascii.Error")
    ELSE IF c.key # s.auth.shared_key \/ c.iv # s.auth.dev_nonce
         THEN Emit(s, "verify_gateway_signature", 0, "InvalidTag")
         ELSE IF c.signer = s.auth.gateway_public_key
              THEN Emit(s, "verify_gateway_signature", 0, "True")
              ELSE Emit(s, "verify_gateway_signature", 0, "False")

\* auth.py:141-172: every exception of the try block, the RuntimeError of
\* the missing user nonce included, becomes the result False
verify_gateway_signature(s, c) ==
    IF \/ s.auth.shared_key = 0
       \/ s.auth.dev_nonce = 0
       \/ s.auth.gateway_public_key = 0
    THEN Emit(s, "verify_gateway_signature", 0, "RuntimeError")
    ELSE IF ~c.b64 \/ c.key # s.auth.shared_key \/ c.iv # s.auth.dev_nonce
         THEN Emit(s, "verify_gateway_signature", 0, "False")
         ELSE IF s.auth.user_nonce = 0
              THEN Emit(s, "verify_gateway_signature", 0, "False")
              ELSE IF /\ c.signer = s.auth.gateway_public_key
                      /\ c.msg = s.auth.user_nonce
                   THEN Emit(s, "verify_gateway_signature", 0, "True")
                   ELSE Emit(s, "verify_gateway_signature", 0, "False")

SetGatewayPublicKey == \E k \in 0..MaxKey : Step(set_gateway_public_key(S, k))

DecryptChallenge == \E c \in Challenges : Step(decrypt_challenge(S, c))

CreateAuthPayload == \E n \in 1..MaxNonce : Step(create_auth_payload(S, n))

VerifyGatewayResponse == \E c \in Signatures : Step(verify_gateway_signature(S, c))

NextAuth ==
    \/ SetGatewayPublicKey
    \/ DecryptChallenge
    \/ CreateAuthPayload
    \/ VerifyGatewayResponse

SpecAuth == Init /\ [][NextAuth]_vars

---------------------------------------------------------------------------
\* Friendly names and the topic of a set command (bridge.py:193, 212-227,
\* 393-417, 567); a string is the sequence of its characters

MaxName == 2    \* characters of a user-attribute name

Alphabet == {"a", "x", "/"}

Strings == UNION {[1..n -> Alphabet] : n \in 0..MaxName}

\* the hub-native ids of the two devices, in the order of _devices
DeviceId(d) == IF d = 1 THEN <<"x">> ELSE <<"x", "a">>

\* base_topic of the configuration, and the word set of a command topic
BaseTopic == <<"b">>

SetWord == <<"s", "e", "t">>

\* the registry a name is looked up in: the configured device_prefix and,
\* per device, the name of its attributes (empty: no attributes, or none
\* with a name); X is the device the set command is meant for
NameInputs ==
    [device_prefix : {<<>>, <<"a">>}, name : [Devices -> Strings], X : Devices]

\* bridge.py:405-417
get_friendly_name(in, d, with_prefix) ==
    LET base_name == IF in.name[d] # <<>> THEN in.name[d] ELSE DeviceId(d)
    IN IF with_prefix /\ in.device_prefix # <<>>
       THEN in.device_prefix \o base_name
       ELSE base_name

\* bridge.py:393-403: the first device, in the order of _devices, whose
\* name with prefix, name without prefix or id is the name; None if none
find_device_by_name(in, fname) ==
    LET match(d) == \/ get_friendly_name(in, d, TRUE) = fname
                    \/ get_friendly_name(in, d, FALSE) = fname
                    \/ DeviceId(d) = fname
    IN IF \E d \in Devices : match(d)
       THEN CHOOSE d \in Devices : match(d) /\ \A e \in Devices : match(e) => d <= e
       ELSE None

\* str.split("/")
RECURSIVE split(_, _)
split(str, word) ==
    IF str = <<>> THEN <<word>>
    ELSE IF Head(str) = "/" THEN <<word>> \o split(Tail(str), <<>>)
    ELSE split(Tail(str), Append(word, Head(str)))

\* the command topic published for device d (bridge.py:567, 579, 585)
command_topic(in, d) ==
    BaseTopic \o <<"/">> \o get_friendly_name(in, d, TRUE) \o <<"/">> \o SetWord

\* the broker delivers what matches the subscription base_topic/+/set
\* (bridge.py:193)
Subscribed(topic) ==
    LET levels == split(topic, <<>>)
    IN Len(levels) = 3 /\ levels[1] = BaseTopic /\ levels[3] = SetWord

\* bridge.py:212-227, 277: the device a message on topic is handled for
on_mqtt_message(in, topic) ==
    LET levels == split(topic, <<>>)
        n == Len(levels)
    IN IF n >= 2 /\ levels[n] = SetWord
       THEN find_device_by_name(in, levels[n - 1])
       ELSE None

\* a set command sent to the command topic of device X: the name X is
\* published under and the device the command is handled for (None: for
\* no device)
set_command_for(in) ==
    LET topic == command_topic(in, in.X)
    IN [name |-> get_friendly_name(in, in.X, TRUE),
        device |-> IF Subscribed(topic) THEN on_mqtt_message(in, topic) ELSE None]

\* the state of the program apart from the call under study
program ==
    <<client, ws, transport, receive_task, recv, connected, authorized,
      command_id, pending_commands, connection_lost_callback,
      broadcast_callback, calls, op, setup, reconnect_task, shut, hs, loops,
      userCalls, ev, app, loaded, setcmd, auth, cat>>

InitNames ==
    /\ InitApp("bridge")
    /\ input \in NameInputs
    /\ output = [done |-> FALSE, name |-> <<>>, device |-> None]

SetCommandArrives ==
    /\ ~output.done
    /\ output' = [done |-> TRUE] @@ set_command_for(input)
    /\ UNCHANGED <<input, program>>

NextNames == SetCommandArrives

SpecNames == InitNames /\ [][NextNames]_vars

---------------------------------------------------------------------------
\* Label tables of an adapter parameter (bridge.py:317-361).  A value is a
\* record: t its Python type, n the number of an int or bool, s the text of
\* a str

MaxLabels == 2    \* entries of a label table

PyInt(n) == [t |-> "int", n |-> n, s |-> ""]

PyBool(n) == [t |-> "bool", n |-> n, s |-> ""]

PyStr(s) == [t |-> "str", n |-> 0, s |-> s]

\* Python ==: True equals 1, a string equals no number
PyEq(a, b) ==
    IF a.t = "str" \/ b.t = "str" THEN a.t = b.t /\ a.s = b.s ELSE a.n = b.n

LabelTexts == {"on", "On", "ON", "off"}

\* str.lower()
lower(str) == IF str \in {"on", "On", "ON"} THEN "on" ELSE str

RawValues == {PyInt(0), PyInt(1), PyBool(1)}

\* a dict of labels in insertion order: the keys differ
LabelTables ==
    {tb \in UNION {[1..n -> [label : LabelTexts, value : RawValues]] : n \in 0..MaxLabels} :
        \A i, j \in DOMAIN tb : i # j => tb[i].label # tb[j].label}

\* the first of the entries idx of a table in the order of the dict, 0 if
\* there is none
First(idx) == IF idx = {} THEN 0 ELSE CHOOSE i \in idx : \A j \in idx : i <= j

\* a reverse lookup that folds case before anything else
convert_value_for_hub_folded(labels, value) ==
    LET fold == {i \in DOMAIN labels : lower(labels[i].label) = lower(value.s)}
    IN IF labels # <<>> /\ value.t = "str" /\ fold # {}
       THEN labels[First(fold)].value
       ELSE value

\* bridge.py:317-341, for a parameter without inversion program
convert_value_for_hub(labels, value) ==
    LET exact == {i \in DOMAIN labels : labels[i].label = value.s}
        fold == {i \in DOMAIN labels : lower(labels[i].label) = lower(value.s)}
    IN IF labels # <<>> /\ value.t = "str"
       THEN IF exact # {} THEN labels[First(exact)].value
            ELSE IF fold # {} THEN labels[First(fold)].value
            ELSE value
       ELSE value

\* bridge.py:343-361, for a parameter without conversion program
convert_value_from_hub(labels, value) ==
    LET same == {i \in DOMAIN labels : PyEq(labels[i].value, value)}
    IN IF labels # <<>> /\ same # {}
       THEN PyStr(labels[First(same)].label)
       ELSE value

LabelInputs ==
    [dir : {"from_hub", "for_hub"}, labels : LabelTables,
     value : RawValues \cup {PyInt(2)} \cup {PyStr(l) : l \in LabelTexts \cup {"oN"}}]

InitLabels ==
    /\ InitApp("bridge")
    /\ input \in LabelInputs
    /\ output = [done |-> FALSE, value |-> PyInt(0)]

ConvertFromHub ==
    /\ ~output.done
    /\ input.dir = "from_hub"
    /\ output' = [done |-> TRUE,
                  value |-> convert_value_from_hub(input.labels, input.value)]
    /\ UNCHANGED <<input, program>>

ConvertForHub ==
    /\ ~output.done
    /\ input.dir = "for_hub"
    /\ output' = [done |-> TRUE,
                  value |-> convert_value_for_hub(input.labels, input.value)]
    /\ UNCHANGED <<input, program>>

NextLabels == ConvertFromHub \/ ConvertForHub

SpecLabels == InitLabels /\ [][NextLabels]_vars

---------------------------------------------------------------------------
\* The conversion programs by themselves: either engine applied to any
\* program and value, and the set command of the bridge

\* address of the parameter a set command names
ParamAddress == 7

\* bridge.py:290-298: the setState request a set command ends in, none when
\* the conversion raised
handle_set_command(value, inversion) ==
    LET converted == convert_number_for_hub(value, inversion)
    IN [raised |-> converted.raised,
        value |-> converted.value,
        set_state |-> IF converted.raised = "" THEN <<ParamAddress, converted.value>>
                      ELSE <<>>]

\* the value of a state field or of a set command: 0, 1, 50
ConversionValues == {Num("int", 0), Num("int", 100), Num("int", 5000)}

ConversionInputs ==
    [call : {"entity_read", "entity_write", "bridge_read", "bridge_write"},
     program : Programs, value : ConversionValues]

NoResult == [done |-> FALSE, raised |-> "", value |-> Num("int", 0), set_state |-> <<>>]

Result(r) ==
    [done |-> TRUE, raised |-> r.raised, value |-> r.value, set_state |-> <<>>]

InitConversion ==
    /\ InitApp("bridge")
    /\ input \in ConversionInputs
    /\ output = NoResult

EntityRead ==
    /\ ~output.done
    /\ input.call = "entity_read"
    /\ output' = Result(convert_from_device(input.value, input.program))
    /\ UNCHANGED <<input, program>>

EntityWrite ==
    /\ ~output.done
    /\ input.call = "entity_write"
    /\ output' = Result(convert_to_device(input.value, input.program))
    /\ UNCHANGED <<input, program>>

BridgeRead ==
    /\ ~output.done
    /\ input.call = "bridge_read"
    /\ output' = Result(convert_number_from_hub(input.value, input.program))
    /\ UNCHANGED <<input, program>>

BridgeWrite ==
    /\ ~output.done
    /\ input.call = "bridge_write"
    /\ output' = [done |-> TRUE] @@ handle_set_command(input.value, input.program)
    /\ UNCHANGED <<input, program>>

NextConversion == EntityRead \/ EntityWrite \/ BridgeRead \/ BridgeWrite

SpecConversion == InitConversion /\ [][NextConversion]_vars

---------------------------------------------------------------------------
\* The packed format of a field (models.py:133-167)

\* a & b of two integers that are not negative
RECURSIVE BitAnd(_, _)
BitAnd(a, b) ==
    IF a = 0 \/ b = 0 THEN 0
    ELSE (a % 2) * (b % 2) + 2 * BitAnd(a \div 2, b \div 2)

\* a >> n
RECURSIVE ShiftRight(_, _)
ShiftRight(a, n) == IF n = 0 THEN a ELSE ShiftRight(a \div 2, n - 1)

\* the mask 0xFF
ByteMask == 255

\* a decoding that takes access and field_type from each other's byte
from_raw_swapped(field_id, raw) ==
    [field_id |-> field_id,
     data_type |-> BitAnd(raw, ByteMask),
     access |-> BitAnd(ShiftRight(raw, 16), ByteMask),
     field_type |-> BitAnd(ShiftRight(raw, 8), ByteMask)]

\* models.py:142-150
from_raw(field_id, raw) ==
    [field_id |-> field_id,
     data_type |-> BitAnd(raw, ByteMask),
     access |-> BitAnd(ShiftRight(raw, 8), ByteMask),
     field_type |-> BitAnd(ShiftRight(raw, 16), ByteMask)]

\* models.py:152-155
is_read_only(format) == format.access = 0

\* the bytes a raw value is made of here, lowest first
ByteSamples == {0, 1, 5, 128, 255}

\* the bits above the three bytes, which take the value past 2^24
HighSamples == {0, 1, 5}

RawFormats ==
    {b[1] + 256 * b[2] + 65536 * b[3] + 16777216 * h :
        b \in [1..3 -> ByteSamples], h \in HighSamples}

FormatInputs == [field_id : 1..MaxFields, raw : RawFormats]

InitFormat ==
    /\ InitApp("coordinator")
    /\ input \in FormatInputs
    /\ output = [done |-> FALSE, format |-> from_raw(0, 0), is_read_only |-> FALSE]

FromRaw ==
    /\ ~output.done
    /\ LET format == from_raw(input.field_id, input.raw)
       IN output' = [done |-> TRUE, format |-> format,
                     is_read_only |-> is_read_only(format)]
    /\ UNCHANGED <<input, program>>

NextFormat == FromRaw

SpecFormat == InitFormat /\ [][NextFormat]_vars

---------------------------------------------------------------------------
\* Home Assistant discovery (bridge.py:507-611)

MaxParams == 2    \* parameters of an adapter

\* addresses above it are service fields
ServiceFieldCutoff == 200

\* a parameter of an adapter: address, type, access, viewParams.type
AdapterParams ==
    [address : {ServiceFieldCutoff, ServiceFieldCutoff + 1},
     param_type : {"bool", "int", "float", "string"},
     access : {"r", "rw"},
     widget : {"dropdown", ""}]

\* models.py:233-236
is_writable(param) == param.access = "rw"

\* the component of a parameter that is never a select
component_no_select(param) ==
    IF param.param_type = "bool"
    THEN IF is_writable(param) THEN "switch" ELSE "binary_sensor"
    ELSE IF param.param_type \in {"int", "float"}
    THEN IF is_writable(param) THEN "number" ELSE "sensor"
    ELSE ""

\* bridge.py:553-605: the component a parameter is announced as, "" for
\* the types that are skipped
component(param) ==
    IF param.param_type = "bool"
    THEN IF is_writable(param) THEN "switch" ELSE "binary_sensor"
    ELSE IF param.param_type \in {"int", "float"}
    THEN IF is_writable(param) /\ param.widget = "dropdown" THEN "select"
         ELSE IF is_writable(param) THEN "number"
         ELSE "sensor"
    ELSE ""

\* bridge.py:526-608: the documents of the parameters from index i on of
\* device d; a document names its component, its device and, by name and
\* unique_id, its parameter
RECURSIVE discovery_params(_, _, _)
discovery_params(in, d, i) ==
    IF i > Len(in.params) THEN <<>>
    ELSE LET param == in.params[i]
         IN IF param.address > ServiceFieldCutoff \/ component(param) = ""
            THEN discovery_params(in, d, i + 1)
            ELSE <<[component |-> component(param), device |-> d, param |-> i,
                    address |-> param.address]>>
                 \o discovery_params(in, d, i + 1)

\* bridge.py:507-611: the documents published, device by device; a device
\* without adapter or without state is passed over
RECURSIVE publish_discovery(_, _)
publish_discovery(in, d) ==
    IF d \notin Devices THEN <<>>
    ELSE (IF ~in.adapter[d] \/ ~in.state[d] THEN <<>>
          ELSE discovery_params(in, d, 1))
         \o publish_discovery(in, d + 1)

\* the registry at the time of the publication: the parameters of the
\* adapter of the devices' driver, and for each device whether its adapter
\* and its state were loaded
DiscoveryInputs ==
    [params : UNION {[1..n -> AdapterParams] : n \in 0..MaxParams},
     adapter : [Devices -> BOOLEAN], state : [Devices -> BOOLEAN]]

InitDiscovery ==
    /\ InitApp("bridge")
    /\ input \in DiscoveryInputs
    /\ output = [done |-> FALSE, docs |-> <<>>]

PublishDiscovery ==
    /\ ~output.done
    /\ output' = [done |-> TRUE, docs |-> publish_discovery(input, 1)]
    /\ UNCHANGED <<input, program>>

NextDiscovery == PublishDiscovery

SpecDiscovery == InitDiscovery /\ [][NextDiscovery]_vars

\* the steps the event loop and the timers take by themselves; the hub,
\* Home Assistant and the entities owe no step
Fairness ==
    /\ WF_vars(ConnectOpen)
    /\ WF_vars(CompleteCall)
    /\ WF_vars(Timeout)
    /\ WF_vars(ReconnectWake)
    /\ WF_vars(DisconnectTaskDone)
    /\ WF_vars(DisconnectClosed)
    /\ WF_vars(ShutdownResume)

FairSpec == Spec /\ Fairness

\* the program with a caller that registers a connection-lost observer
NextObserved == Next \/ SetConnectionLostCallback

SpecObserved == Init /\ [][NextObserved]_vars

\* _schedule_reconnect called by any caller at any time the coordinator
\* is set up and not shut down
ScheduleReconnect ==
    /\ setup \in {"ok", "failed"}
    /\ shut = "idle"
    /\ Step(Emit(schedule_reconnect(S), "schedule", 0, "none"))

NextScheduled == Next \/ ScheduleReconnect

SpecScheduled == Init /\ [][NextScheduled]_vars

---------------------------------------------------------------------------
\* The bridge and its broker: the connection comes and goes while the hub
\* broadcasts, and the coroutine scheduled by the connect callback runs
\* later on the event loop

MaxMqttConnects == 2   \* accepted connections to the broker

\* bridge.py:184-203, rc = 0: the flag, the subscriptions and the
\* scheduled _on_mqtt_ready
on_mqtt_connect_callback(s) ==
    [s EXCEPT !.cat.mqtt_connected = TRUE,
              !.cat.mqtt_connects = @ + 1,
              !.cat.mqtt_ready = @ + 1]

\* bridge.py:205-210
on_mqtt_disconnect(s) == [s EXCEPT !.cat.mqtt_connected = FALSE]

\* bridge.py:229-242
on_mqtt_ready(s) ==
    publish_all_states(Emit([s EXCEPT !.cat.mqtt_ready = @ - 1],
                            "mqtt_ready", 0, "none"),
                       Ordered(DOMAIN s.cat.devices))

\* the names a set command is addressed to: those of the two devices and
\* one that no device has
TopicNames == {"dev1", "dev2", "dev9"}

\* the keys of a set command, in the order of the JSON object
MaxKeys == 2

KeyTexts == {"on", "ON", "level"}

KeyLists ==
    {ks \in UNION {[1..n -> KeyTexts] : n \in 0..MaxKeys} :
        \A i, j \in DOMAIN ks : i # j => ks[i] # ks[j]}

\* the payloads: text that is no JSON, or an object of keys; set_state
\* raises or not (client.py:175-212)
Payloads ==
    [json : {"invalid"}, keys : {<<>>}, raises : {FALSE}]
        \cup [json : {"object"}, keys : KeyLists, raises : BOOLEAN]

\* no parameter
NoParam == Param("", None)

\* a lookup that settles for the first parameter
get_param_by_name_first(adapter, name) ==
    IF adapter = None THEN NoParam
    ELSE adapter_params(adapter)[1]

\* bridge.py:300-315, models.py:296-301: the first parameter of that name,
\* else the first whose name is the same in lower case
get_param_by_name(adapter, name) ==
    IF adapter = None THEN NoParam
    ELSE LET params == adapter_params(adapter)
             exact == {i \in DOMAIN params : params[i].name = name}
             folded == {i \in DOMAIN params :
                           params[i].name # "" /\ lower(params[i].name) = lower(name)}
         IN IF exact # {} THEN params[First(exact)]
            ELSE IF folded # {} THEN params[First(folded)]
            ELSE NoParam

\* bridge.py:393-403, the names being those of friendly_name
find_device(s, fname) ==
    LET found == {d \in DOMAIN s.cat.devices : friendly_name(d) = fname}
    IN IF found = {} THEN None ELSE CHOOSE d \in found : \A e \in found : d <= e

\* bridge.py:290-298: the loop over the keys; a set_state that raises ends
\* the coroutine
RECURSIVE set_keys(_, _, _, _)
set_keys(s, adapter, keys, raises) ==
    IF keys = <<>> THEN s
    ELSE LET key == Head(keys)
             param == get_param_by_name(adapter, key)
         IN IF param = NoParam THEN set_keys(s, adapter, Tail(keys), raises)
            ELSE IF raises
            THEN Emit(Emit(s, "set_state", param.address, key),
                      "set_command", 0, "raised")
            ELSE set_keys(Emit(s, "set_state", param.address, key),
                          adapter, Tail(keys), raises)

\* bridge.py:275-298
handle_set_message(s, fname, payload) ==
    LET d == find_device(s, fname)
    IN IF d = None THEN Emit(s, "set_command", 0, "device not found")
       ELSE IF payload.json = "invalid"
       THEN Emit(s, "set_command", d, "invalid json")
       ELSE set_keys(Emit(s, "set_command", d, "handled"),
                     s.cat.adapters[s.cat.devices[d].driver],
                     payload.keys, payload.raises)

\* the message as it arrives: its topic name, its payload and its keys
RECURSIVE arrived_keys(_, _, _)
arrived_keys(s, keys, n) ==
    IF keys = <<>> THEN s
    ELSE arrived_keys(Emit(s, "key", n, Head(keys)), Tail(keys), n + 1)

arrived(s, fname, payload) ==
    arrived_keys(Emit(Emit(s, "topic", 0, fname), "json", 0, payload.json),
                 payload.keys, 1)

InitMqtt == NoCall /\ InitApp("bridge")

\* a turn of the bridge's load, the hub serving any of its adapters
LoadDeviceAdapter ==
    /\ cat.load.state = "running"
    /\ \E f \in Failures(app), v \in 1..DividingAdapter :
        Step(load_device(S, [failed |-> f, version |-> v]))

\* paho's network thread reports an accepted connection, the first one
\* after the load (bridge.py:65-68) and each automatic reconnection
MqttConnected ==
    /\ cat.loads > 0
    /\ cat.load.state = "idle"
    /\ ~cat.mqtt_connected
    /\ cat.mqtt_connects < MaxMqttConnects
    /\ Step(on_mqtt_connect_callback(S))

\* paho's network thread reports the connection lost
MqttDisconnected ==
    /\ cat.mqtt_connected
    /\ Step(on_mqtt_disconnect(S))

\* the broker delivers a set command and the event loop runs its
\* _handle_set_command (bridge.py:212-227)
SetCommand ==
    /\ cat.mqtt_connected
    /\ \E fname \in TopicNames, payload \in Payloads :
        Step(handle_set_message(arrived(S, fname, payload), fname, payload))

\* the event loop runs a scheduled _on_mqtt_ready
MqttReady ==
    /\ cat.mqtt_ready > 0
    /\ Step(on_mqtt_ready(S))

NextMqtt ==
    \/ LoadBegin
    \/ LoadDeviceAdapter
    \/ Broadcast
    \/ MqttConnected
    \/ MqttDisconnected
    \/ MqttReady

SpecMqtt == InitMqtt /\ [][NextMqtt]_vars

\* the loaded and connected bridge receiving set commands
NextCommands ==
    \/ LoadBegin
    \/ LoadDeviceAdapter
    \/ MqttConnected
    \/ SetCommand

SpecCommands == InitMqtt /\ [][NextCommands]_vars

---------------------------------------------------------------------------
\* Properties

Happened(k) == \E e \in ev : e.k = k

LoopOpen(c) == recv[c] = "running" /\ transport[c] = "open"

ResponseFrames == {f \in Frames : f.type = "json" /\ ~f.broadcast}

\* one iteration of a running receive loop on a response frame whose id
\* has no slot returns the state it was given
StaleResponsesIgnored ==
    \A c \in Conns :
        LoopOpen(c) =>
            LET s0 == S
            IN  \A f \in ResponseFrames :
                    f.id \notin pending_commands => receive_frame(s0, c, f) = s0

\* C1: a command's future is completed only with the response that carries
\* the command's own id, whatever the order of the responses; the id
\* counter never decreases and every new command takes an id above all ids
\* allocated before, also after a reconnect.
C1_CorrelatedById ==
    [][/\ \A i \in DOMAIN calls' :
            calls'[i].fut = "result" => calls'[i].resp.id = i
       /\ command_id' >= command_id
       /\ \A i \in DOMAIN calls' \ DOMAIN calls :
            i = command_id' /\ i > command_id]_vars

\* on the second transport a later command has its response while an
\* earlier one still waits
C1_OutOfOrderAfterReconnect ==
    /\ ws = 2
    /\ \E i, j \in DOMAIN calls :
        /\ i < j
        /\ calls[i].fut = "pending"
        /\ calls[j].fut = "result"

\* C2: a command that times out leaves _send_command with its slot removed;
\* a removed slot never comes back; and a response frame whose id has no
\* slot changes nothing: no command is completed and no field of the link
\* is touched.
C2_LateResponseIgnored ==
    [][/\ \A e \in ev' :
            e.k = "invoke_timeout" =>
                /\ e.id \notin pending_commands'
                /\ e.id \notin DOMAIN calls'
                /\ e.id <= command_id'
       /\ \A i \in 1..command_id :
            i \notin pending_commands => i \notin pending_commands'
       /\ StaleResponsesIgnored']_vars

\* a command has just timed out while the receive loop of an open
\* transport can still deliver its response, and another command waits
C2_TimedOutLoopAlive ==
    /\ Happened("invoke_timeout")
    /\ \E c \in Conns : LoopOpen(c)
    /\ \E i \in DOMAIN calls : calls[i].fut = "pending"

\* C3 as stated: the slots are exactly the ids of the commands that have
\* registered and not yet returned.
C3_SlotsEqualInvokes == pending_commands = DOMAIN calls

\* C3: every slot belongs to a command that has registered and not yet
\* returned; a command that has not yet returned and has no slot has a
\* future that is already done or cancelled (disconnect() cleared the
\* table), so it leaves at its next step.
C3_SlotsOfWaitingInvokes ==
    /\ pending_commands \subseteq DOMAIN calls
    /\ \A i \in (DOMAIN calls) \ pending_commands : calls[i].fut # "pending"

\* disconnect() has cleared the table under a command that has not returned
C3_ClearedUnderInvoke ==
    /\ Happened("disconnect_done")
    /\ \E i \in DOMAIN calls : i \notin pending_commands

\* C4: within one connect() at most one addUser is sent and the handshake
\* is started at most twice.
C4_OneRegistration == hs.addUsers <= 1 /\ hs.runs <= 2

\* C5: when connect() has failed the link is disconnected: flags false, no
\* receive loop running, no transport open.
C5_FailedConnectClean ==
    Happened("connect_failed") =>
        /\ ~connected
        /\ ~authorized
        /\ \A c \in Conns : recv[c] # "running" /\ transport[c] # "open"

C7_FaultNotifiesOnce ==
    [][\A c \in Conns :
        (Event("loop_fault", c, "none") \in ev' /\ connection_lost_callback)
        => /\ ~connected'
           /\ ~authorized'
           /\ Event("connection_lost", c, "none") \in ev']_vars

\* C8: for every frame a running receive loop can be given: a binary
\* frame changes nothing; a broadcast completes no command and keeps every
\* slot, even with the id of a waiting command, and goes to the observer;
\* a response with the id of a waiting slot completes that command and
\* nothing else, and changes nothing if the command is completed already;
\* a response whose id has no slot changes nothing.
C8_FrameDispatch ==
    \A c \in Conns, f \in Frames :
        LoopOpen(c) =>
            LET s0 == S
                r == receive_frame(s0, c, f)
                matched == f.id # 0 /\ f.id \in pending_commands
            IN  /\ f.type = "binary" => r = s0
                /\ (f.type = "json" /\ f.broadcast) =>
                    /\ r.calls = calls
                    /\ r.pending_commands = pending_commands
                    /\ broadcast_callback => \E e \in r.ev : e.k = "observer"
                /\ (f.type = "json" /\ ~f.broadcast /\ matched) =>
                    IF calls[f.id].fut = "pending"
                    THEN r = [s0 EXCEPT !.calls[f.id].fut = "result",
                                        !.calls[f.id].resp = f]
                    ELSE r = s0
                /\ (f.type = "json" /\ ~f.broadcast /\ ~matched) => r = s0

\* a broadcast with the id of a waiting command went to the observer and
\* the command still waits
C8_BroadcastWithPendingId ==
    /\ Event("observer", 0, "pending_id") \in ev
    /\ \E c \in Conns : LoopOpen(c)
    /\ pending_commands # {}
    /\ \A i \in pending_commands : calls[i].fut = "pending"

\* C9: never more than one _reconnect_loop task exists that has not ended.
C9_OneReconnectLoop == loops <= 1

\* _schedule_reconnect was called while the loop was in its attempt
C9_ScheduledWhileAttempting ==
    /\ Happened("schedule")
    /\ reconnect_task = "attempt"
    /\ loops = 1

\* C10: once the receive loop of an established connection has ended by a
\* fault, a reconnect loop is eventually started (or the entry unloaded).
C10_LossLeadsToReconnect ==
    (setup = "ok" /\ shut = "idle" /\ ~connected)
        ~> (reconnect_task # "none" \/ shut # "idle")


\* C11: when the reconnect loop ends by itself the link is connected and
\* _load_devices has completed on the current transport.
C11_LoopEndsReloaded ==
    [][(reconnect_task \in {"sleep", "attempt"} /\ reconnect_task' = "done")
        => (connected' /\ loaded' # 0 /\ loaded' = ws')]_vars

\* C12: a failed first connection never leaves start-up by an exception;
\* the program stays up with a reconnect loop waiting or attempting until a
\* device load has completed.
C12_DegradedNotAborted ==
    /\ setup # "raised"
    /\ (setup = "failed" /\ shut = "idle" /\ loaded = 0)
        => reconnect_task \in {"sleep", "attempt"}

\* C18: when set_state fails for one field of a set command by an error
\* envelope or a timeout and fields remain, the next field's set_state is
\* issued in the same step and the command goes on.
C18_FieldsIndependent ==
    [][\A e \in ev' :
        (e.k = "set_failed" /\ e.x = "reply" /\ e.id < setcmd'.fields)
        => (setcmd'.state = "running" /\ setcmd'.issued = e.id + 1)]_vars


\* C19: the link becomes authorized only on an authenticate reply whose
\* gateway signature verifies.
C19_ReadyOnlyVerified == \A e \in ev : e.k = "ready" => e.x = "good"


Outcome(k, x) == \E e \in ev : e.k = k /\ e.x = x

\* decrypt_challenge without a shared key raises and changes nothing
DecryptNeedsKey ==
    [][(Happened("decrypt_challenge")' /\ auth.shared_key = 0)
        => (Outcome("decrypt_challenge", "RuntimeError")' /\ auth' = auth)]_vars

\* create_auth_payload without a decrypted challenge raises and changes
\* nothing
PayloadNeedsChallenge ==
    [][(Happened("create_auth_payload")' /\ auth.dev_nonce = 0)
        => (Outcome("create_auth_payload", "RuntimeError")' /\ auth' = auth)]_vars

\* C20: a step of the handshake object called before its prerequisite
\* raises an error and leaves the fields unchanged: decrypt_challenge
\* without a shared key, create_auth_payload without a decrypted challenge,
\* verify_gateway_signature without a user nonce.
C20_PrerequisiteFailsFast ==
    [][/\ (Happened("decrypt_challenge")' /\ auth.shared_key = 0)
           => (Outcome("decrypt_challenge", "RuntimeError")' /\ auth' = auth)
       /\ (Happened("create_auth_payload")' /\ auth.dev_nonce = 0)
           => (Outcome("create_auth_payload", "RuntimeError")' /\ auth' = auth)
       /\ (Happened("verify_gateway_signature")' /\ auth.user_nonce = 0)
           => (Outcome("verify_gateway_signature", "RuntimeError")'
               /\ auth' = auth)]_vars


\* the field keys an update carries: numeric keys with an object value
Carried(u) == {k \in DOMAIN u.props : isdigit(k) /\ u.props[k].dict}

\* the updates the next broadcast can deliver and the registry accepts:
\* object updates for a listed device
Accepted(u) ==
    /\ cat.updates < MaxUpdates
    /\ u.evt = "object_update"
    /\ u.id \in DOMAIN cat.devices

\* C13: a step that handles an update whose id is missing or not in the
\* registry leaves the device, state, format and attribute maps as they
\* were and does nothing else: no listener is notified, nothing is published.
C13_UnknownIgnored ==
    [][\A e \in ev' :
        (e.k = "object_update" /\ e.id \notin DOMAIN cat.devices)
        => /\ cat'.devices = cat.devices
           /\ cat'.states = cat.states
           /\ cat'.formats = cat.formats
           /\ cat'.attributes = cat.attributes
           /\ ev' = {Event("object_update", e.id, "ignored")}]_vars

\* an update for device 3 reached a bridge that has devices and a broker
C13_UnknownAfterLoad ==
    /\ app = "bridge"
    /\ cat.mqtt_connected
    /\ DOMAIN cat.states # {}
    /\ Event("object_update", 3, "ignored") \in ev

\* C14: handling an accepted update leaves the device with a state whose
\* carried fields hold the values decoded from the update and whose other
\* fields are as before, and leaves every other device's state as before.
C14_UpdateSetsCarriedFields ==
    cat.updates < MaxUpdates => \A u \in Updates :
        Accepted(u) =>
            LET s0 == S
                t == handle_object_update(s0, u)
                old == IF u.id \in DOMAIN cat.states
                       THEN cat.states[u.id].properties ELSE Empty
                ids == {int(k) : k \in Carried(u)}
            IN /\ DOMAIN t.cat.states = DOMAIN cat.states \cup {u.id}
               /\ DOMAIN t.cat.states[u.id].properties = DOMAIN old \cup ids
               /\ \A k \in Carried(u) :
                    t.cat.states[u.id].properties[int(k)] = from_dict(u.props[k])
               /\ \A f \in DOMAIN old \ ids :
                    t.cat.states[u.id].properties[f] = old[f]
               /\ \A d \in DOMAIN cat.states \ {u.id} :
                    t.cat.states[d] = cat.states[d]

\* the same of the coordinator alone
CoordinatorUpdateSetsCarriedFields ==
    app = "coordinator" => C14_UpdateSetsCarriedFields

\* C15: the coordinator's handling of an accepted update gives the
\* description the update's lqi, lse and warn where it carries them and the
\* prior values where it does not, and keeps id, manufacturer, model,
\* network id and driver.
C15_SparseMerge ==
    (app = "coordinator" /\ cat.updates < MaxUpdates) =>
        \A u \in Updates :
            Accepted(u) =>
                LET s0 == S
                    t == handle_object_update(s0, u)
                    old == cat.devices[u.id]
                    new == t.cat.devices[u.id]
                    has(k) == k \in DOMAIN u.props
                IN /\ new.lqi = IF has("lqi") THEN u.props["lqi"] ELSE old.lqi
                   /\ new.last_seen = IF has("lse") THEN u.props["lse"]
                                      ELSE old.last_seen
                   /\ new.warning = IF has("warn") THEN u.props["warn"]
                                    ELSE old.warning
                   /\ new.id = old.id
                   /\ new.manufacturer = old.manufacturer
                   /\ new.model = old.model
                   /\ new.network_id = old.network_id
                   /\ new.driver = old.driver
                   /\ \A d \in DOMAIN cat.devices \ {u.id} :
                        t.cat.devices[d] = cat.devices[d]

\* the coordinator accepted an update for device 2 that carried lqi and
\* neither lse nor warn: the lqi is new, last-seen and the warning loaded
C15_MergedLqiOnly ==
    /\ app = "coordinator"
    /\ Event("object_update", 2, "accepted") \in ev
    /\ cat.devices[2].lqi = 2
    /\ cat.devices[2].last_seen = 1
    /\ cat.devices[2].warning

\* C16: the bridge, connected to the broker, answers an accepted update by
\* publishing the state payload with the link quality and the availability
\* of the description merged with the update: offline when the update sets
\* the warning, online when it clears it.
C16_PublishesMerged ==
    (app = "bridge" /\ cat.mqtt_connected /\ cat.updates < MaxUpdates) =>
        \A u \in Updates :
            Accepted(u) =>
                LET s0 == S
                    t == handle_object_update(s0, u)
                    old == cat.devices[u.id]
                    lqi == IF "lqi" \in DOMAIN u.props THEN u.props["lqi"]
                           ELSE old.lqi
                    warning == IF "warn" \in DOMAIN u.props THEN u.props["warn"]
                               ELSE old.warning
                IN /\ Event("state", lqi, friendly_name(u.id)) \in t.ev
                   /\ Event("availability", u.id,
                            IF warning THEN "offline" ELSE "online") \in t.ev

\* the same for the updates that carry neither lqi nor warn, of a device
\* that has a state
PublishesLoaded ==
    (app = "bridge" /\ cat.mqtt_connected /\ cat.updates < MaxUpdates) =>
        \A u \in Updates :
            (/\ Accepted(u)
             /\ u.id \in DOMAIN cat.states
             /\ DOMAIN u.props \cap {"lqi", "warn"} = {}) =>
                LET s0 == S
                    t == handle_object_update(s0, u)
                    old == cat.devices[u.id]
                IN /\ Event("state", old.lqi, friendly_name(u.id)) \in t.ev
                   /\ Event("availability", u.id,
                            IF old.warning THEN "offline" ELSE "online") \in t.ev

\* C17 as stated: when a load has ended, getAdapter was sent exactly once
\* for the driver of every listed device.
C17_ExactlyOncePerDriver ==
    (cat.load.state = "idle" /\ cat.loads > 0) =>
        \A d \in DOMAIN cat.devices : cat.fetches[cat.devices[d].driver] = 1

\* C17: a cached adapter is never fetched again nor replaced, whatever is
\* loaded or broadcast, and a step sends at most one getAdapter, only for
\* a driver with no cached adapter; a driver whose cached adapter came with
\* no failed request was fetched exactly once.
C17_CachedOnce ==
    [][\A d \in Drivers :
        /\ cat.adapters[d] # None
            => (cat'.adapters[d] = cat.adapters[d]
                /\ cat'.fetches[d] = cat.fetches[d])
        /\ cat'.fetches[d] <= cat.fetches[d] + 1
        /\ (cat'.adapters[d] # None /\ d \notin cat'.fetch_failed)
            => cat'.fetches[d] = 1]_vars

\* a reload has ended and an update reported adapter crc 2 for a device:
\* two devices share driver A, fetched once at the first load
C17_SharedDriverReloaded ==
    /\ cat.loads = MaxLoads
    /\ cat.load.state = "idle"
    /\ DOMAIN cat.states = Devices
    /\ \A d \in Devices : cat.devices[d].driver = "A"
    /\ cat.adapters["A"] # None
    /\ cat.fetches["A"] = 1
    /\ \E d \in Devices : cat.states[d].adapter_crc = 2


\* the session has a gateway key, a shared key, a decrypted challenge and
\* the user nonce of a create_auth_payload
Prerequisites ==
    /\ auth.gateway_public_key # None
    /\ auth.shared_key # None
    /\ auth.dev_nonce # None
    /\ auth.user_nonce # None

\* C21: with its prerequisites met, verify_gateway_signature of any
\* ciphertext raises nothing, changes no field, and returns True exactly
\* when the ciphertext is base64 of an encryption under the shared key and
\* the dev nonce's IV of a signature by the gateway key over the user nonce
\* of the last create_auth_payload; it returns False otherwise.
C21_VerifyNeverRaises ==
    Prerequisites =>
        \A c \in Signatures :
            LET s0 == S
                t == verify_gateway_signature(s0, c)
                valid == /\ c.b64
                         /\ c.key = auth.shared_key
                         /\ c.iv = auth.dev_nonce
                         /\ c.signer = auth.gateway_public_key
                         /\ c.msg = auth.user_nonce
            IN /\ t.auth = auth
               /\ t.ev = {Event("verify_gateway_signature", 0,
                                IF valid THEN "True" ELSE "False")}

\* a verification has returned True after the gateway key was replaced and
\* a second payload was made
C21_VerifiedSecondRun ==
    /\ Outcome("verify_gateway_signature", "True")
    /\ auth.gateway_public_key = MaxKey
    /\ auth.user_nonce = MaxNonce
    /\ auth.dev_nonce # auth.user_nonce


\* the model allocates no further request id
IdsExhausted == command_id = MaxCmd

\* C22: under the fair scheduling of the event loop and its timers, and
\* whatever the hub does, every _send_command that waits for its response
\* eventually resumes its caller, and every connect() eventually returns or
\* raises: time and again no command is waiting and no connect() is running
\* (as far as the request ids of the model reach).
C22_CallsEnd ==
    /\ []<>(DOMAIN calls = {} \/ IdsExhausted)
    /\ []<>(op.kind # "connect" \/ IdsExhausted)

\* a command the hub never answered has timed out during the handshake and
\* connect() has raised
C22_ConnectTimedOut ==
    /\ Happened("invoke_timeout")
    /\ Happened("connect_failed")
    /\ calls = Empty
    /\ ~IdsExhausted


\* what the load has stored so far: the bridge's _states, the coordinator's
\* local states until it publishes them as data
LoadedStates(c) ==
    IF app = "bridge" \/ c.load.state = "idle" THEN c.states ELSE c.load.states

\* C23: a load goes through every device that parses out of the listObjects
\* result, whatever request or payload fails: device 1, whose entry parses
\* in every result, is listed even when another entry does not parse; each
\* turn of the loop goes on to the next device or ends the load normally,
\* and keeps the states loaded for the other devices.
C23_LoadSkipsFailures ==
    [][/\ cat'.loads # cat.loads
           => (1 \in DOMAIN cat'.devices /\ cat'.load.state = "running")
       /\ (cat.load.state = "running" /\ cat'.load # cat.load)
           => LET todo == cat.load.todo
                  d == Head(todo)
              IN /\ Len(todo) > 1
                     => (cat'.load.state = "running" /\ cat'.load.todo = Tail(todo))
                 /\ Len(todo) = 1
                     => (cat'.load.state = "idle" /\ Happened("loaded")')
                 /\ \A e \in DOMAIN LoadedStates(cat) \ {d} :
                        /\ e \in DOMAIN LoadedStates(cat')
                        /\ LoadedStates(cat')[e] = LoadedStates(cat)[e]]_vars

\* the coordinator has ended a load of two devices in which the requests
\* of device 1 failed: device 2 has its state
C23_SecondDeviceLoaded ==
    /\ app = "coordinator"
    /\ Happened("loaded")
    /\ DOMAIN cat.devices = Devices
    /\ DOMAIN cat.states = {2}
    /\ cat.formats = {2}


\* the name device X is published under is no other device's name, with or
\* without prefix, nor its id
NameUnique(in) ==
    \A d \in Devices \ {in.X} :
        /\ get_friendly_name(in, in.X, TRUE) # get_friendly_name(in, d, TRUE)
        /\ get_friendly_name(in, in.X, TRUE) # get_friendly_name(in, d, FALSE)
        /\ get_friendly_name(in, in.X, TRUE) # DeviceId(d)

\* what the friendly name of device X must be
ExpectedName(in) ==
    in.device_prefix \o (IF in.name[in.X] # <<>> THEN in.name[in.X]
                         ELSE DeviceId(in.X))

\* C24: device X is published under its attribute name if it has one, else
\* its id, after the configured prefix, and a set command sent to the
\* command topic of that name is handled for X whenever the name is that of
\* no other device, with or without prefix, nor another device's id.
C24_SetCommandResolves ==
    output.done =>
        /\ output.name = ExpectedName(input)
        /\ NameUnique(input) => output.device = input.X

\* the same for the names that hold no "/"
SetCommandResolvesOneLevel ==
    output.done =>
        /\ output.name = ExpectedName(input)
        /\ (NameUnique(input) /\ \A i \in DOMAIN output.name : output.name[i] # "/")
            => output.device = input.X

\* a command for device 2 was resolved by its prefixed attribute name while
\* device 1 goes by its id
C24_ResolvedSecondByName ==
    /\ output.done
    /\ input.X = 2
    /\ input.device_prefix # <<>>
    /\ input.name[2] # <<>>
    /\ input.name[1] = <<>>
    /\ NameUnique(input)
    /\ output.device = 2


\* C25: the forward lookup of a raw value gives a label whose table value
\* equals the raw value, and the raw value itself when no table value does;
\* the reverse lookup of a string gives the value of the label that is the
\* string, else the value of a label that is the string up to case, else
\* the string itself.
C25_LabelLookup ==
    LET v == input.value
        tb == input.labels
        same == {i \in DOMAIN tb : PyEq(tb[i].value, v)}
        exact == {i \in DOMAIN tb : tb[i].label = v.s}
        fold == {i \in DOMAIN tb : lower(tb[i].label) = lower(v.s)}
    IN output.done =>
        /\ input.dir = "from_hub" =>
            IF same # {}
            THEN \E i \in same : output.value = PyStr(tb[i].label)
            ELSE output.value = v
        /\ (input.dir = "for_hub" /\ v.t = "str") =>
            IF exact # {}
            THEN \E i \in exact : output.value = tb[i].value
            ELSE IF fold # {}
            THEN \E i \in fold : output.value = tb[i].value
            ELSE output.value = v

\* "on" was looked up in a table that holds "On" before "on", with other
\* values
C25_ExactWon ==
    /\ output.done
    /\ input.dir = "for_hub"
    /\ input.value = PyStr("on")
    /\ Len(input.labels) = 2
    /\ input.labels[1].label = "On"
    /\ input.labels[2].label = "on"
    /\ ~PyEq(input.labels[1].value, input.labels[2].value)
    /\ output.value = input.labels[2].value


\* the value a program of one operator must give: left op right, 0 for a
\* division by 0
Applied(o, left, right) ==
    IF o = "+" THEN left.q + right.q
    ELSE IF o = "-" THEN left.q - right.q
    ELSE IF o = "*" THEN (left.q * right.q) \div Scale
    ELSE IF right.q = 0 THEN 0
    ELSE (left.q * Scale) \div right.q

\* the operand of a token for the input x
Operand(tok, x) == IF tok.k = "self" THEN x ELSE tok.num

\* programs of two operands and an operator
OneOperator(p) == Len(p) = 3 /\ p[1].k # "op" /\ p[2].k # "op" /\ p[3].k = "op"

\* C26: a program [l, r, op] gives l op r with self standing for the input,
\* so [a, self, -] gives a minus the input, and gives 0 without raising when
\* op is / and r is 0, in the entity and in the bridge, read and written.
C26_ProgramEvaluates ==
    LET p == input.program
    IN (output.done /\ OneOperator(p)) =>
        /\ output.raised = ""
        /\ output.value.q = Applied(p[3].o, Operand(p[1], input.value),
                                    Operand(p[2], input.value))

\* the same of the entity alone
EntityProgramEvaluates ==
    (input.call \in {"entity_read", "entity_write"}) => C26_ProgramEvaluates

\* C27: a set command with the value 50 for a parameter whose inversion is
\* [self, 2.55, *] ends in setState of the parameter's address with the int
\* 127.
C27_SetStateRounded ==
    ( /\ output.done
      /\ input.call = "bridge_write"
      /\ input.program = <<Self, Lit(Num("float", 255)), Operator("*")>>
      /\ input.value = Num("int", 5000) )
        => output.set_state = <<ParamAddress, Num("int", 12700)>>


\* C28: the decoded data_type is raw mod 256, access is (raw div 256) mod
\* 256 and field_type is (raw div 65536) mod 256, each within 0..255; they
\* recompose to raw when raw is below 2^24, and the field is read-only
\* exactly when access is 0.
C28_FormatDecoded ==
    LET f == output.format
        raw == input.raw
    IN output.done =>
        /\ f.field_id = input.field_id
        /\ f.data_type = raw % 256
        /\ f.access = (raw \div 256) % 256
        /\ f.field_type = (raw \div 65536) % 256
        /\ {f.data_type, f.access, f.field_type} \subseteq 0..255
        /\ raw < 16777216 => f.data_type + 256 * f.access + 65536 * f.field_type = raw
        /\ output.is_read_only <=> f.access = 0

\* 0x000105 was decoded to data_type 5, access 1, field_type 0, writable
C28_Decoded0x105 ==
    /\ output.done
    /\ input.raw = 261
    /\ output.format.data_type = 5
    /\ output.format.access = 1
    /\ output.format.field_type = 0
    /\ ~output.is_read_only


\* the documents published for parameter i of device d
DocsOf(d, i) ==
    {k \in DOMAIN output.docs : output.docs[k].device = d /\ output.docs[k].param = i}

\* the shape of the document of a parameter
Shape(param) ==
    IF param.param_type = "bool"
    THEN IF param.access = "rw" THEN "switch" ELSE "binary_sensor"
    ELSE IF param.access = "rw"
    THEN IF param.widget = "dropdown" THEN "select" ELSE "number"
    ELSE "sensor"

\* C29: a publication emits exactly one document for every parameter of a
\* device's adapter with an address at or below the cutoff and none for one
\* above, and the document is a switch, binary_sensor, select, number or
\* sensor by type, writability and widget hint.
C29_OneDocumentPerParameter ==
    output.done =>
        \A d \in Devices : \A i \in DOMAIN input.params :
            input.adapter[d] =>
                /\ Cardinality(DocsOf(d, i)) =
                       IF input.params[i].address <= ServiceFieldCutoff THEN 1 ELSE 0
                /\ \A k \in DocsOf(d, i) :
                       output.docs[k].component = Shape(input.params[i])

\* the same of the devices whose adapter and state are loaded and of the
\* parameters of type bool, int or float; no document for any other
C29_OneDocumentPerLoadedNumber ==
    output.done =>
        \A d \in Devices : \A i \in DOMAIN input.params :
            /\ Cardinality(DocsOf(d, i)) =
                   IF /\ input.adapter[d]
                      /\ input.state[d]
                      /\ input.params[i].param_type \in {"bool", "int", "float"}
                      /\ input.params[i].address <= ServiceFieldCutoff
                   THEN 1 ELSE 0
            /\ \A k \in DocsOf(d, i) :
                   output.docs[k].component = Shape(input.params[i])

\* a writable int with the dropdown hint was announced as a select for
\* device 2, beside a parameter above the cutoff that was not announced
C29_SelectAnnounced ==
    /\ output.done
    /\ Len(input.params) = 2
    /\ input.params[1].address > ServiceFieldCutoff
    /\ input.params[2].param_type = "int"
    /\ \E k \in DOMAIN output.docs :
          output.docs[k] = [component |-> "select", device |-> 2, param |-> 2,
                            address |-> ServiceFieldCutoff]
    /\ DocsOf(2, 1) = {}


\* the handshake request m is sent in this step
HandshakeSent(m) ==
    \E i \in DOMAIN calls' \ DOMAIN calls :
        calls'[i].owner = "connect" /\ calls'[i].m = m

\* in this step the handshake resumes with a reply of body b to its
\* request m
HandshakeResumed(m, b) ==
    \E i \in DOMAIN calls \ DOMAIN calls' :
        /\ calls[i].owner = "connect"
        /\ calls[i].m = m
        /\ calls[i].fut = "result"
        /\ ~calls[i].resp.error
        /\ calls[i].resp.body = b

\* the handshake requests that wait for their reply
HandshakePending == {i \in DOMAIN calls : calls[i].owner = "connect"}

\* C30: a handshake run starts with pubKey, at the opening of a connection
\* or after a successful addUser, sends challenge only on the reply that
\* holds the gateway key and authenticate only on the reply whose challenge
\* decrypts, one request at a time.
C30_HandshakeOrder ==
    [][ /\ Cardinality(HandshakePending) <= 1
        /\ HandshakeSent("pubKey") =>
              \/ op = Op("connect", "opening") /\ HandshakePending = {}
              \/ HandshakeResumed("addUser", "good")
        /\ HandshakeSent("challenge") =>
              /\ op = Op("connect", "pubKey")
              /\ HandshakeResumed("pubKey", "good")
        /\ HandshakeSent("authenticate") =>
              /\ op = Op("connect", "challenge")
              /\ HandshakeResumed("challenge", "good") ]_vars

\* authenticate is sent in the run that follows a registration
C30_AuthenticateInSecondRun ==
    /\ op = Op("connect", "authenticate")
    /\ hs.runs = 2
    /\ hs.addUsers = 1
    /\ \E i \in HandshakePending : calls[i].m = "authenticate" /\ calls[i].fut = "pending"

\* challenge is sent in the handshake of a reconnect
C30_ChallengeOnReconnect ==
    /\ op = Op("connect", "challenge")
    /\ reconnect_task = "attempt"


\* C32: the link is never authorized without being connected.
C32_AuthorizedImpliesConnected == authorized => connected

\* C33: while the link is connected its receive loop is running.
C33_ConnectedLoopRunning ==
    connected => (receive_task # 0 /\ recv[receive_task] = "running")

\* C35: a broadcast whose observer raises leaves every receive loop running
\* and the flags of the link as they were.
C35_ObserverErrorContained ==
    [][Outcome("observer", "raised")'
        => (recv' = recv /\ connected' = connected /\ authorized' = authorized)]_vars


\* the transports that are open, the receive loops that run
OpenTransports == {c \in Conns : transport[c] = "open"}

RunningLoops == {c \in Conns : recv[c] = "running"}

\* C36: at most one transport is open and at most one receive loop runs,
\* and connect() is entered only when none is.
C36_OneTransportOneLoop ==
    [][ /\ Cardinality(OpenTransports') <= 1
        /\ Cardinality(RunningLoops') <= 1
        /\ (op' = Op("connect", "opening") /\ op # op')
            => (OpenTransports' = {} /\ RunningLoops' = {}) ]_vars

\* the reconnect loop has opened a second transport after the first, left
\* open by a failed connect(), was torn down
C36_SecondTransportAlone ==
    /\ reconnect_task = "attempt"
    /\ transport[1] = "closed"
    /\ OpenTransports = {2}
    /\ RunningLoops = {2}


\* the state of the link object in s
Link(s) ==
    [ws |-> s.ws, transport |-> s.transport, receive_task |-> s.receive_task,
     recv |-> s.recv, connected |-> s.connected, authorized |-> s.authorized,
     pending_commands |-> s.pending_commands, command_id |-> s.command_id,
     futures |-> [i \in DOMAIN s.calls |-> s.calls[i].fut]]

\* C38: in every state of the link a call of disconnect() leaves it
\* disconnected (flags false, no receive task, its loop ended, no transport,
\* its transport closed, no slot, no future pending in a slot), and a second
\* call leaves it as the first did.
C38_DisconnectIdempotent ==
    LET s0 == S
        once == disconnect_call(s0)
        twice == disconnect_call(once)
    IN  /\ ~once.connected
        /\ ~once.authorized
        /\ once.receive_task = 0
        /\ once.ws = 0
        /\ once.pending_commands = {}
        /\ s0.receive_task # 0 => once.recv[s0.receive_task] # "running"
        /\ s0.ws # 0 => once.transport[s0.ws] = "closed"
        /\ \A i \in s0.pending_commands : once.calls[i].fut # "pending"
        /\ Link(twice) = Link(once)

\* disconnect() has returned in the reconnect loop, on a link whose
\* connect() had failed with its transport open
C38_DisconnectedAfterFailure ==
    /\ Happened("disconnect_done")
    /\ reconnect_task = "attempt"
    /\ transport[1] = "closed"
    /\ ws = 0


\* programs [self, literal, op]
SelfLiteralOp(p) == Len(p) = 3 /\ p[1].k = "self" /\ p[2].k = "lit" /\ p[3].k = "op"

\* what the other of the two routines gives for the input
OtherRoutine ==
    IF input.call \in {"bridge_read", "bridge_write"}
    THEN entity_apply_conversion(input.value, input.program)
    ELSE bridge_apply_conversion(input.value, input.program)

\* C40: for a program [self, literal, op] the routine of the bridge and the
\* evaluator of the entity give the same value, and one raises only where
\* the other does.
C40_RoutinesAgree ==
    (output.done /\ SelfLiteralOp(input.program)) =>
        /\ output.raised = OtherRoutine.raised
        /\ output.value.q = OtherRoutine.value.q

\* the same but for the division by the literal 0
RoutinesAgreeButDivisionByZero ==
    ( /\ output.done
      /\ SelfLiteralOp(input.program)
      /\ ~(input.program[3].o = "/" /\ input.program[2].num.q = 0) )
        => /\ output.raised = OtherRoutine.raised
           /\ output.value.q = OtherRoutine.value.q


Fetched ==
    IF cat.load.state # "running" THEN {}
    ELSE {d \in DOMAIN LoadedStates(cat) :
            \A i \in DOMAIN cat.load.todo : cat.load.todo[i] # d}

\* C34: an update accepted during a load for a device whose getState
\* response is already stored is kept: with no later message of the hub for
\* the device, the fields it carries hold its values when the load has
\* ended, however the remaining requests end.
C34_BroadcastSurvivesLoad ==
    cat.updates < MaxUpdates => \A u \in Updates :
        (Accepted(u) /\ u.id \in Fetched) =>
            \A f \in Failures(app) :
                LET s0 == S
                    t == finish_load(handle_object_update(s0, u),
                                     [failed |-> f, version |-> 1])
                IN \A k \in Carried(u) :
                    /\ u.id \in DOMAIN t.cat.states
                    /\ int(k) \in DOMAIN t.cat.states[u.id].properties
                    /\ t.cat.states[u.id].properties[int(k)] = from_dict(u.props[k])

\* the same of the bridge alone
BridgeBroadcastSurvivesLoad == app = "bridge" => C34_BroadcastSurvivesLoad

\* C31: a run of _on_mqtt_ready that finds the broker connected publishes,
\* for every device with a loaded state, the retained state message with
\* the registry's link quality and the stored field values and the retained
\* availability of the registry's warning flag; a step that finds the
\* broker disconnected publishes nothing and leaves nothing scheduled for it
Published(e) == e.k \in {"state", "payload", "availability"}

Republished(d) ==
    \E text \in {e.x : e \in ev} :
        /\ Event("state", cat.devices[d].lqi, friendly_name(d)) \in ev
        /\ Event("payload", d, text) \in ev
        /\ Event("availability", d,
                 IF ~cat.devices[d].warning THEN "online" ELSE "offline") \in ev

C31_ReconnectRepublishes ==
    [][ /\ (Happened("mqtt_ready")' /\ cat'.mqtt_connected) =>
             \A d \in DOMAIN cat'.states : Republished(d)'
        /\ ~cat.mqtt_connected =>
             /\ \A e \in ev' : ~Published(e)
             /\ cat'.mqtt_ready <= cat.mqtt_ready + 1
             /\ (cat'.mqtt_ready > cat.mqtt_ready => cat'.mqtt_connected)
      ]_vars

\* the payload of device d as stored, no parameter converting
StoredPayload(d) ==
    ToString([f \in DOMAIN cat.states[d].properties |->
                 IF cat.states[d].properties[f].value = None THEN None
                 ELSE Num("int", cat.states[d].properties[f].value * Scale)])

\* the same of the runs of _on_mqtt_ready that no conversion ends, the
\* devices of an adapter without conversion publishing their stored values
ReconnectRepublishesUnlessRaised ==
    [][ /\ (Happened("mqtt_ready")' /\ cat'.mqtt_connected
                /\ ~Outcome("publish", "raised")') =>
             \A d \in DOMAIN cat'.states :
                 /\ Republished(d)'
                 /\ cat'.adapters[cat'.devices[d].driver] # DividingAdapter
                        => Event("payload", d, StoredPayload(d)')  \in ev'
        /\ ~cat.mqtt_connected =>
             /\ \A e \in ev' : ~Published(e)
             /\ cat'.mqtt_ready <= cat.mqtt_ready + 1
             /\ (cat'.mqtt_ready > cat.mqtt_ready => cat'.mqtt_connected)
      ]_vars

\* the second connection's _on_mqtt_ready publishes a state that a
\* broadcast has changed
ReconnectRepublished ==
    /\ Happened("mqtt_ready")
    /\ cat.mqtt_connected
    /\ cat.mqtt_connects = 2
    /\ cat.updates = 1
    /\ \E d \in DOMAIN cat.states :
           /\ Republished(d)
           /\ cat.states[d].properties # LoadedState(d).properties

\* C39: a set command whose topic names no device of the registry, or whose
\* payload is no JSON, calls set_state for nothing; a key that is the name
\* of no parameter of the device's adapter, neither as written nor in lower
\* case, has no set_state; and the command leaves the registry, the stored
\* states and the adapters as they were
Addressed(d) == Event("topic", 0, friendly_name(d)) \in ev

NamesNoParam(adapter, key) ==
    \/ adapter = None
    \/ \A i \in DOMAIN adapter_params(adapter) :
           LET name == adapter_params(adapter)[i].name
           IN name # key /\ (name = "" \/ lower(name) # lower(key))

C39_BadCommandIgnored ==
    [][ Happened("topic")' =>
          /\ cat' = cat
          /\ (\A d \in DOMAIN cat.devices : ~Addressed(d)') => ~Happened("set_state")'
          /\ Outcome("json", "invalid")' => ~Happened("set_state")'
          /\ \A d \in DOMAIN cat.devices, e \in ev' :
                (/\ Addressed(d)'
                 /\ e.k = "key"
                 /\ NamesNoParam(cat.adapters[cat.devices[d].driver], e.x))
                => \A r \in ev' : ~(r.k = "set_state" /\ r.x = e.x)
      ]_vars

\* a command for a device with a cached adapter sets one key and passes
\* over another that names no parameter
C39_UnknownKeyPassedOver ==
    /\ Outcome("set_command", "handled")
    /\ \E d \in DOMAIN cat.states \cap DOMAIN cat.devices :
           /\ Addressed(d)
           /\ cat.adapters[cat.devices[d].driver] # None
    /\ Event("key", 1, "level") \in ev
    /\ Event("key", 2, "ON") \in ev
    /\ \E r \in ev : r.k = "set_state" /\ r.x = "ON"
    /\ \A r \in ev : r.k = "set_state" => r.x # "level"

\* commands for no device and of no JSON arrive
C39_BadCommandsArrive ==
    \/ Outcome("set_command", "device not found") /\ cat.devices # Empty
    \/ Outcome("set_command", "invalid json")

====
